---------------------------- MODULE Spec2Model ----------------------------
(***************************************************************************)
(* A model of the x402 payment pipeline on Stellar:                        *)
(*   - the header encoding layer (base64 of JSON),                         *)
(*   - the Express gate (paymentMiddleware) with its response buffering,   *)
(*   - the facilitator's settle and the ledger it submits to.              *)
(*                                                                         *)
(* Text is a sequence of character codes, so that encoding and decoding    *)
(* are computed and not assumed.                                           *)
(***************************************************************************)
EXTENDS Integers, Sequences, FiniteSets, TLC

(***************************************************************************)
(* Text constants (character codes of the literal strings).                *)
(***************************************************************************)
K_success == <<115, 117, 99, 99, 101, 115, 115>>
K_transaction == <<116, 114, 97, 110, 115, 97, 99, 116, 105, 111, 110>>
K_network == <<110, 101, 116, 119, 111, 114, 107>>
K_payer == <<112, 97, 121, 101, 114>>
L_true == <<116, 114, 117, 101>>
L_false == <<102, 97, 108, 115, 101>>
L_null == <<110, 117, 108, 108>>
StellarTestnet == <<115, 116, 101, 108, 108, 97, 114, 45, 116, 101, 115, 116, 110, 101, 116>>
StellarMainnet == <<115, 116, 101, 108, 108, 97, 114>>
PayerA == <<71, 80, 65, 89, 69, 82, 65>>
TxHash1 == <<97, 98, 49, 50>>
TxHash2 == <<99, 100, 51, 52>>

\* The absent string (a header that is not set, an undefined field).
NoText == <<>>

(***************************************************************************)
(* JSON values: [t |-> "str", v |-> text], [t |-> "bool", v |-> b],        *)
(* [t |-> "num", v |-> n], [t |-> "null"], [t |-> "undef"] and             *)
(* [t |-> "obj", v |-> <<<<key, value>>, ...>>] in insertion order.        *)
(***************************************************************************)
JStr(s) == [t |-> "str", v |-> s]
JBool(b) == [t |-> "bool", v |-> b]
JNum(n) == [t |-> "num", v |-> n]
JObj(members) == [t |-> "obj", v |-> members]
JUndef == [t |-> "undef"]

RECURSIVE NatToText(_)
\* Number.prototype.toString of a non-negative integer.
NatToText(n) ==
  IF n < 10 THEN <<48 + n>> ELSE NatToText(n \div 10) \o <<48 + (n % 10)>>

RECURSIVE JsonEscape(_)
JsonEscape(s) ==
  IF s = <<>> THEN <<>>
  ELSE (IF Head(s) \in {34, 92} THEN <<92, Head(s)>> ELSE <<Head(s)>>)
         \o JsonEscape(Tail(s))

\* JSON.stringify's escaping of the characters of a string (quote, backslash).
JsonQuoteCharsMut(s) == s
JsonQuoteChars(s) ==
  IF \A i \in 1..Len(s) : s[i] \notin {34, 92} THEN s ELSE JsonEscape(s)

RECURSIVE JsonStringify(_)
RECURSIVE JsonStringifyMembers(_, _)
\* JSON.stringify(value): members whose value is undefined are left out.
JsonStringify(x) ==
  CASE x.t = "str" -> <<34>> \o JsonQuoteChars(x.v) \o <<34>>
    [] x.t = "bool" -> (IF x.v THEN L_true ELSE L_false)
    [] x.t = "num" -> NatToText(x.v)
    [] x.t = "null" -> L_null
    [] x.t = "obj" -> <<123>> \o JsonStringifyMembers(x.v, TRUE) \o <<125>>

JsonStringifyMembers(ms, first) ==
  IF ms = <<>> THEN <<>>
  ELSE IF Head(ms)[2].t = "undef" THEN JsonStringifyMembers(Tail(ms), first)
  ELSE (IF first THEN <<>> ELSE <<44>>)
         \o <<34>> \o JsonQuoteChars(Head(ms)[1]) \o <<34, 58>>
         \o JsonStringify(Head(ms)[2])
         \o JsonStringifyMembers(Tail(ms), FALSE)

(***************************************************************************)
(* JSON.parse, as a recursive-descent parser over the text.  A result is   *)
(* [ok |-> BOOLEAN, val |-> value, next |-> index after the value].        *)
(***************************************************************************)
JsonFail == [ok |-> FALSE, val |-> JUndef, next |-> 0]

IsJsonSpace(c) == c \in {32, 9, 10, 13}
IsDigit(c) == c \in 48..57

RECURSIVE SkipSpace(_, _)
SkipSpace(t, i) ==
  IF i <= Len(t) /\ IsJsonSpace(t[i]) THEN SkipSpace(t, i + 1) ELSE i

\* The number of backslashes that immediately precede t[j], from t[i] on.
BackslashRun(t, i, j) ==
  LET stops == {k \in (i - 1)..(j - 1) : k = i - 1 \/ t[k] # 92}
      last == CHOOSE k \in stops : \A m \in stops : m <= k
  IN  j - 1 - last

RECURSIVE JsonUnescape(_)
\* The text of a string literal's characters; <<0>> marks a bad escape.
JsonUnescape(s) ==
  IF s = <<>> THEN <<>>
  ELSE IF Head(s) # 92 THEN <<Head(s)>> \o JsonUnescape(Tail(s))
  ELSE IF Len(s) >= 2 /\ s[2] \in {34, 92, 47}
    THEN <<s[2]>> \o JsonUnescape(SubSeq(s, 3, Len(s)))
  ELSE <<0>>

\* t[i..] after the opening quote of a string literal.
ParseStringTail(t, i) ==
  LET ends == {j \in i..Len(t) : t[j] = 34 /\ BackslashRun(t, i, j) % 2 = 0} IN
  IF ends = {} THEN JsonFail
  ELSE
    LET j == CHOOSE e \in ends : \A m \in ends : e <= m
        raw == SubSeq(t, i, j - 1)
        text == IF \A k \in 1..Len(raw) : raw[k] # 92 THEN raw
                ELSE JsonUnescape(raw)
    IN  IF \E k \in 1..Len(text) : text[k] < 32 THEN JsonFail
        ELSE [ok |-> TRUE, val |-> JStr(text), next |-> j + 1]

RECURSIVE ParseDigits(_, _, _)
ParseDigits(t, i, acc) ==
  IF i <= Len(t) /\ IsDigit(t[i])
    THEN ParseDigits(t, i + 1, acc * 10 + (t[i] - 48))
    ELSE [ok |-> TRUE, val |-> JNum(acc), next |-> i]

HasLiteral(t, i, lit) ==
  /\ i + Len(lit) - 1 <= Len(t)
  /\ SubSeq(t, i, i + Len(lit) - 1) = lit

RECURSIVE ParseValue(_, _)
RECURSIVE ParseMembers(_, _, _)
ParseValue(t, i0) ==
  LET i == SkipSpace(t, i0) IN
  IF i > Len(t) THEN JsonFail
  ELSE IF t[i] = 34 THEN ParseStringTail(t, i + 1)
  ELSE IF t[i] = 123
    THEN LET j == SkipSpace(t, i + 1) IN
         IF j <= Len(t) /\ t[j] = 125
           THEN [ok |-> TRUE, val |-> JObj(<<>>), next |-> j + 1]
           ELSE ParseMembers(t, j, <<>>)
  ELSE IF HasLiteral(t, i, L_true)
    THEN [ok |-> TRUE, val |-> JBool(TRUE), next |-> i + Len(L_true)]
  ELSE IF HasLiteral(t, i, L_false)
    THEN [ok |-> TRUE, val |-> JBool(FALSE), next |-> i + Len(L_false)]
  ELSE IF HasLiteral(t, i, L_null)
    THEN [ok |-> TRUE, val |-> [t |-> "null"], next |-> i + Len(L_null)]
  ELSE IF IsDigit(t[i])
    THEN IF t[i] = 48 /\ i + 1 <= Len(t) /\ IsDigit(t[i + 1])
           THEN JsonFail
           ELSE ParseDigits(t, i, 0)
  ELSE JsonFail

\* The members of an object from index i (a key is expected) on.
ParseMembers(t, i0, acc) ==
  LET i == SkipSpace(t, i0) IN
  IF i > Len(t) \/ t[i] # 34 THEN JsonFail
  ELSE
    LET k == ParseStringTail(t, i + 1) IN
    IF ~k.ok THEN JsonFail
    ELSE
      LET c == SkipSpace(t, k.next) IN
      IF c > Len(t) \/ t[c] # 58 THEN JsonFail
      ELSE
        LET v == ParseValue(t, c + 1) IN
        IF ~v.ok THEN JsonFail
        ELSE
          LET e == SkipSpace(t, v.next)
              acc2 == Append(acc, <<k.val.v, v.val>>)
          IN
          IF e > Len(t) THEN JsonFail
          ELSE IF t[e] = 125
            THEN [ok |-> TRUE, val |-> JObj(acc2), next |-> e + 1]
          ELSE IF t[e] = 44 THEN ParseMembers(t, e + 1, acc2)
          ELSE JsonFail

\* JSON.parse(text): the whole text must be one value.
JsonParse(t) ==
  LET r == ParseValue(t, 1) IN
  IF r.ok /\ SkipSpace(t, r.next) = Len(t) + 1 THEN r ELSE JsonFail

(***************************************************************************)
(* Base64 (Buffer.from(str, "utf-8").toString("base64") and back).         *)
(***************************************************************************)
B64Chars ==
  <<65, 66, 67, 68, 69, 70, 71, 72, 73, 74, 75, 76, 77, 78, 79, 80, 81, 82,
    83, 84, 85, 86, 87, 88, 89, 90, 97, 98, 99, 100, 101, 102, 103, 104, 105,
    106, 107, 108, 109, 110, 111, 112, 113, 114, 115, 116, 117, 118, 119, 120,
    121, 122, 48, 49, 50, 51, 52, 53, 54, 55, 56, 57, 43, 47>>

B64Char(n) == B64Chars[n + 1]

\* Character j of the base64 form of the bytes bs.
B64EncodeAt(bs, j) ==
  LET g == (j - 1) \div 4
      p == (j - 1) % 4
      has2 == 3 * g + 2 <= Len(bs)
      has3 == 3 * g + 3 <= Len(bs)
      b1 == bs[3 * g + 1]
      b2 == IF has2 THEN bs[3 * g + 2] ELSE 0
      b3 == IF has3 THEN bs[3 * g + 3] ELSE 0
  IN  CASE p = 0 -> B64Char(b1 \div 4)
        [] p = 1 -> B64Char((b1 % 4) * 16 + b2 \div 16)
        [] p = 2 -> (IF has2 THEN B64Char((b2 % 16) * 4 + b3 \div 64) ELSE 61)
        [] p = 3 -> (IF has3 THEN B64Char(b3 % 64) ELSE 61)

safeBase64Encode(bs) ==
  [j \in 1..(4 * ((Len(bs) + 2) \div 3)) |-> B64EncodeAt(bs, j)]

\* The value of a base64 character, -1 for a character outside the alphabet
\* (Node also reads the URL-safe characters - and _).
B64Val(c) ==
  IF c = 45 THEN 62
  ELSE IF c = 95 THEN 63
  ELSE IF \E n \in 0..63 : B64Chars[n + 1] = c
    THEN CHOOSE n \in 0..63 : B64Chars[n + 1] = c
  ELSE -1

\* Node's decoder stops at the first = and skips what is not in the alphabet.
B64Sextets(s) ==
  LET pads == {i \in 1..Len(s) : s[i] = 61}
      stop == IF pads = {} THEN Len(s) + 1
              ELSE CHOOSE i \in pads : \A m \in pads : i <= m
      idx == {i \in 1..(stop - 1) : B64Val(s[i]) >= 0}
      at(k) == IF idx = 1..(stop - 1) THEN k
               ELSE CHOOSE i \in idx : Cardinality({m \in idx : m < i}) = k - 1
  IN  [k \in 1..Cardinality(idx) |-> B64Val(s[at(k)])]

\* Byte k of the bytes that the sextets x hold.
B64ByteAt(x, k) ==
  LET q == ((k - 1) * 8) \div 6 + 1
      r == ((k - 1) * 8) % 6
  IN  CASE r = 0 -> x[q] * 4 + x[q + 1] \div 16
        [] r = 2 -> (x[q] % 16) * 16 + x[q + 1] \div 4
        [] r = 4 -> (x[q] % 4) * 64 + x[q + 1]

B64Bytes(x) == [k \in 1..((Len(x) * 6) \div 8) |-> B64ByteAt(x, k)]

safeBase64Decode(s) == B64Bytes(B64Sextets(s))

\* encodePaymentHeader(payload) = safeBase64Encode(JSON.stringify(payload))
encodePaymentHeader(payload) == safeBase64Encode(JsonStringify(payload))

\* decodePaymentHeader(header) = JSON.parse(safeBase64Decode(header)); a
\* result that is not ok stands for the thrown SyntaxError.
decodePaymentHeader(header) == JsonParse(safeBase64Decode(header))

(***************************************************************************)
(* The gate: paymentMiddleware of x402-stellar-express.                     *)
(*                                                                         *)
(* One request is followed from its arrival to the end of its handler.     *)
(* The facilitator is reached over HTTP (useFacilitator) and answers with  *)
(* a result or fails at transport level (the client throws).               *)
(***************************************************************************)
VARIABLES
  req,              \* the request: matching route, X-PAYMENT header, Accept/User-Agent
  gpc,              \* where paymentMiddlewareHandler stands
  handler,          \* the protected route handler: its calls on res, and how many
                    \* of them it issues before next() returns
  hpos,             \* the handler's next call (0: the handler was not invoked)
  res,              \* the response object and what it has put on the wire
  bufferedCalls,    \* bufferedCalls of the buffering wrapper
  settled,          \* settled of the buffering wrapper
  wrapped,          \* res.writeHead/write/end are the buffering wrappers
  facilitatorCalls, \* the verify and settle calls made, in order
  verifyOutcome, verifyResult, \* what verify answered
  settleOutcome, settleResult, \* what settle answered
  nextCalls         \* the number of times next() was called

gateVars ==
  <<req, gpc, handler, hpos, res, bufferedCalls, settled, wrapped,
    facilitatorCalls, verifyOutcome, verifyResult, settleOutcome,
    settleResult, nextCalls>>

\* The facilitator and the ledger (modelled further below).
VARIABLES
  feeSponsor,     \* FACILITATOR_SECRET_KEY is configured
  applied,        \* the transactions the ledger has applied (by inner id)
  balance,        \* the native balance of each account on the ledger
  currentLedger,  \* the ledger's sequence number
  submissions,    \* every envelope sent to the ledger, in order
  replayStore,    \* the transaction hashes recorded as settled
  call,           \* the settle calls in flight, one per caller
  lastVerify      \* the last verify answered: its payload, its result, and the
                  \* payloads whose settle had returned success before it

facVars ==
  <<feeSponsor, applied, balance, currentLedger, submissions, replayStore,
    call, lastVerify>>

(***************************************************************************)
(* IEEE 754 double arithmetic for priceToStroops (parseFloat, the product  *)
(* with 10_000_000, Math.floor, BigInt).  A natural number of any size is  *)
(* the sequence of its base-64 digits, most significant first (zero is     *)
(* the empty sequence); a double is mant * 2^exp with mant such a number.  *)
(***************************************************************************)
RECURSIVE BigFromInt(_)
BigFromInt(n) == IF n = 0 THEN <<>> ELSE Append(BigFromInt(n \div 64), n % 64)

RECURSIVE BigMulAdd(_, _, _)
\* a * d + carry, for d and carry below 2^24
BigMulAdd(a, d, carry) ==
  IF a = <<>> THEN BigFromInt(carry)
  ELSE LET v == a[Len(a)] * d + carry IN
       Append(BigMulAdd(SubSeq(a, 1, Len(a) - 1), d, v \div 64), v % 64)

RECURSIVE BigDivStep(_, _, _, _, _)
BigDivStep(a, d, i, rem, q) ==
  IF i > Len(a) THEN [q |-> q, r |-> rem]
  ELSE LET cur == rem * 64 + a[i] IN
       BigDivStep(a, d, i + 1, cur % d,
                  IF q = <<>> /\ cur \div d = 0 THEN q ELSE Append(q, cur \div d))
\* Quotient and remainder of a by d, for d up to 2^25
BigDivSmall(a, d) == BigDivStep(a, d, 1, 0, <<>>)

\* 2^k for k below 31
Pow2(k) == IF k = 0 THEN 1 ELSE LET f[i \in 0..k] == IF i = 0 THEN 1 ELSE 2 * f[i - 1] IN f[k]
Pow10(k) == IF k = 0 THEN 1 ELSE LET f[i \in 0..k] == IF i = 0 THEN 1 ELSE 10 * f[i - 1] IN f[k]

\* Bit p (bit 0 is the least significant) and the number of bits of a.
BigBit(a, p) ==
  IF p \div 6 >= Len(a) THEN 0 ELSE (a[Len(a) - p \div 6] \div Pow2(p % 6)) % 2
BigBitLen(a) ==
  IF a = <<>> THEN 0
  ELSE 6 * (Len(a) - 1) + (CHOOSE b \in 1..6 : Pow2(b - 1) <= a[1] /\ a[1] < Pow2(b))
\* floor(a / 2^t)
BigShiftRight(a, t) ==
  LET bits == BigBitLen(a) - t
      digit(j) == BigBit(a, t + 6 * j) + 2 * BigBit(a, t + 6 * j + 1)
                  + 4 * BigBit(a, t + 6 * j + 2) + 8 * BigBit(a, t + 6 * j + 3)
                  + 16 * BigBit(a, t + 6 * j + 4) + 32 * BigBit(a, t + 6 * j + 5)
      n == (bits + 5) \div 6
  IN  IF bits <= 0 THEN <<>> ELSE [i \in 1..n |-> digit(n - i)]

\* a * 2^(-t) rounded to the nearest integer, ties to even; inexact says
\* that a itself is the floor of a value that is not an integer.
BigRoundShift(a, t, inexact) ==
  IF t <= 0 THEN a
  ELSE
    LET q == BigShiftRight(a, t)
        guard == BigBit(a, t - 1) = 1
        sticky == inexact \/ \E p \in 0..(t - 2) : BigBit(a, p) = 1
        odd == BigBit(a, t) = 1
    IN  IF guard /\ (sticky \/ odd) THEN BigMulAdd(q, 1, 1) ELSE q

\* The double nearest to mant * 2^exp (53 significant bits).
ToDouble(mant, exp, inexact) ==
  LET t == BigBitLen(mant) - 53 IN
  IF t <= 0 THEN [mant |-> mant, exp |-> exp]
  ELSE [mant |-> BigRoundShift(mant, t, inexact), exp |-> exp + t]

\* The double nearest to n / 10^k (n below 2^31, k up to 14): n * 2^84 is
\* divided by 10^k (in two divisions when 10^k is above 2^25) and the
\* quotient rounded.
DecimalToDouble(n, k) ==
  LET k1 == IF k <= 7 THEN k ELSE 7
      d1 == BigDivSmall(BigFromInt(n) \o [i \in 1..14 |-> 0], Pow10(k1))
      d2 == BigDivSmall(d1.q, Pow10(k - k1))
  IN  ToDouble(d2.q, -84, d1.r # 0 \/ d2.r # 0)

\* x * y for a double x and an integer y below 2^24, rounded to a double.
DoubleTimes(x, y) == ToDouble(BigMulAdd(x.mant, y, 0), x.exp, FALSE)

\* Math.floor of a non-negative double, as an integer of any size.
DoubleFloor(x) ==
  IF x.exp >= 0 THEN BigMulAdd(x.mant, Pow2(x.exp), 0)
  ELSE BigShiftRight(x.mant, -x.exp)

\* Math.ceil of a non-negative double.
DoubleCeil(x) ==
  IF x.exp >= 0 THEN DoubleFloor(x)
  ELSE IF \E p \in 0..(-x.exp - 1) : BigBit(x.mant, p) = 1
    THEN BigMulAdd(DoubleFloor(x), 1, 1)
  ELSE DoubleFloor(x)

RECURSIVE BigToText(_)
\* BigInt.prototype.toString
BigToText(a) ==
  IF a = <<>> THEN <<48>>
  ELSE LET d == BigDivSmall(a, 10) IN
       IF d.q = <<>> THEN <<48 + d.r>> ELSE Append(BigToText(d.q), 48 + d.r)

\* A call of one of the library's functions on its own: the arguments it is
\* given and what it has returned.
VARIABLES
  input,          \* the arguments of the call
  output          \* [done |-> FALSE] before the call, then its result

pureVars == <<input, output>>

\* A function returned by wrapFetchWithPayment: where its one call stands
\* (wf), the requests it has made through fetch (sent) and the payment
\* requirements it has had signed (signed).
VARIABLES wf, sent, signed
fetchVars == <<wf, sent, signed>>

\* The facilitator's discovery store: the stored entries in insertion
\* order (dstore), Date.now() (now), a touchResource between its two awaits
\* (touch), what the last operation returned (dresult), and the resources
\* whose unregister has completed with no registration issued since
\* (removed).
VARIABLES dstore, now, touch, dresult, removed
discVars == <<dstore, now, touch, dresult, removed>>
NoTouch == [pc |-> "idle"]
NoResult == [op |-> "none"]
NoRequirement == [scheme |-> "none", network |-> "none", maxAmountRequired |-> <<>>]
IdleFetch ==
  [pc |-> "idle", maxAmount |-> 0, selector |-> "none", retry |-> FALSE,
   selected |-> NoRequirement, error |-> "", calls |-> 0,
   status |-> 0, sent0 |-> 0, signed0 |-> 0]
NoInput == [fn |-> "none"]
NoOutput == [done |-> FALSE]

\* ---- configuration (paymentMiddleware's config) ----
PayTo == "GRECEIVER"
NoRoute == [price |-> JUndef, asset |-> "none"]

\* parseFloat(text) for a string of digits with an optional sign and an
\* optional fraction: the longest prefix that is a decimal literal, as
\* n / 10^k, negated when neg; nan when there is no digit.
parseFloat(text) ==
  LET neg == text # <<>> /\ text[1] = 45
      str == IF text # <<>> /\ text[1] \in {43, 45} THEN Tail(text) ELSE text
      IsDig(i) == i <= Len(str) /\ IsDigit(str[i])
      whole == CHOOSE w \in 0..Len(str) :
                 /\ \A i \in 1..w : IsDig(i)
                 /\ ~IsDig(w + 1)
      dot == whole + 1 <= Len(str) /\ str[whole + 1] = 46
      frac == IF ~dot THEN 0
              ELSE CHOOSE f \in 0..Len(str) :
                     /\ \A i \in 1..f : IsDig(whole + 1 + i)
                     /\ ~IsDig(whole + 2 + f)
      digits == SubSeq(str, 1, whole) \o SubSeq(str, whole + 2, whole + 1 + frac)
      value[i \in 0..Len(digits)] ==
        IF i = 0 THEN 0 ELSE 10 * value[i - 1] + (digits[i] - 48)
  IN  [nan |-> whole + frac = 0, n |-> value[Len(digits)], k |-> frac,
       neg |-> neg]

\* The Error priceToStroops throws for a price that is not a number.
InvalidPrice == <<>>
\* parsed * 10_000_000 in double arithmetic
ScaleToStroops(n, k) == DoubleTimes(DecimalToDouble(n, k), 10000000)
\* priceToStroops(price): a number is printed as it is; a string is parsed
\* as a float, multiplied by 10_000_000 and floored (below zero the floor
\* is the negated ceiling of the magnitude, and -0 prints as "0").
priceToStroops(price) ==
  IF price.t = "num" THEN NatToText(price.v)
  ELSE LET parsed == parseFloat(price.v)
           scaled == ScaleToStroops(parsed.n, parsed.k)
       IN
       IF parsed.nan THEN InvalidPrice
       ELSE IF parsed.neg /\ DoubleCeil(scaled) # <<>>
         THEN <<45>> \o BigToText(DoubleCeil(scaled))
       ELSE BigToText(DoubleFloor(scaled))

\* The route rules of the gate, as findMatchingRoute returns them.
RouteConfigs ==
  { [price |-> JNum(10000000), asset |-> "native"],
    [price |-> JNum(500000), asset |-> "CUSDC"] }

\* paymentRequirements of a request that matched the rule cfg.
PaymentRequirements(cfg) ==
  [ scheme |-> "exact",
    network |-> StellarTestnet,
    maxAmountRequired |-> priceToStroops(cfg.price),
    resource |-> "http://host/path",
    mimeType |-> "application/json",
    payTo |-> PayTo,
    maxTimeoutSeconds |-> 300,
    asset |-> cfg.asset ]

\* ---- requests ----
\* X-PAYMENT is absent, is not the base64 of a JSON text, is the base64 of
\* a JSON text that is no Payload ("{}"), or is an encoded Payload.
HeaderKinds == {"absent", "undecodable", "shapeless", "payload"}
K_x402Version == <<120, 52, 48, 50, 86, 101, 114, 115, 105, 111, 110>>
K_scheme == <<115, 99, 104, 101, 109, 101>>
PaymentPayload ==
  JObj(<< <<K_x402Version, JNum(1)>>,
          <<K_scheme, JStr(<<101, 120, 97, 99, 116>>)>>,
          <<K_network, JStr(<<115, 116, 101, 108, 108, 97, 114, 45, 116, 101, 115, 116, 110, 101, 116>>)>> >>)
HeaderText(kind) ==
  CASE kind = "payload" -> encodePaymentHeader(PaymentPayload)
    [] kind = "shapeless" -> encodePaymentHeader(JObj(<<>>))
    [] kind = "undecodable" -> safeBase64Encode(<<123>>)
    [] OTHER -> NoText
\* decodePaymentHeader(paymentHeader) of the request
DecodedHeader(r) == decodePaymentHeader(HeaderText(r.header))

\* The Accept and User-Agent headers are read only for a protected route
\* without X-PAYMENT (isBrowserRequest): other requests are taken without them.
Requests ==
  { r \in [ matchingRoute : {NoRoute} \cup RouteConfigs,
            header : HeaderKinds,
            acceptsHtml : BOOLEAN,
            mozilla : BOOLEAN ] :
      (r.matchingRoute = NoRoute \/ r.header # "absent") =>
        (~r.acceptsHtml /\ ~r.mozilla) }

\* isBrowserRequest(req)
isBrowserRequest(r) == r.acceptsHtml /\ r.mozilla

\* !paymentHeader
HeaderMissingMut(r) == FALSE
HeaderMissing(r) == r.header = "absent"

\* ---- the handler's calls on res ----
NoChunk == [src |-> "none"]
HChunk(d) == [src |-> "handler", data |-> d]
OpStatus(c) == [m |-> "status", code |-> c, chunk |-> NoChunk]
OpWriteHead(c) == [m |-> "writeHead", code |-> c, chunk |-> NoChunk]
OpWrite(d) == [m |-> "write", code |-> 0, chunk |-> HChunk(d)]
OpEnd(d) == [m |-> "end", code |-> 0, chunk |-> HChunk(d)]
OpEndEmpty == [m |-> "end", code |-> 0, chunk |-> NoChunk]

\* The most res.write calls a handler makes before its res.end.
MaxWrites == 1

\* A handler sets its status (or leaves the default 200) through the status
\* property (res.status, res.statusCode) or through res.writeHead, streams
\* some chunks with res.write and finishes with res.end (res.json, res.send).
HandlerCodes == {201, 500}
HandlerHeads ==
  {<<>>} \cup {<<OpStatus(c)>> : c \in HandlerCodes}
         \cup {<<OpWriteHead(c)>> : c \in HandlerCodes}
HandlerWrites(k) == [i \in 1..k |-> OpWrite(i)]
HandlerScripts ==
  { hd \o HandlerWrites(k) \o <<e>> :
      hd \in HandlerHeads, k \in 0..MaxWrites,
      e \in {OpEnd(MaxWrites + 1), OpEndEmpty} }

Handlers ==
  { h \in [script : HandlerScripts, sync : 0..(MaxWrites + 2)] :
      h.sync <= Len(h.script) }

\* The status the handler gave its response (200 unless it set one).
HandlerStatus(script) ==
  LET idx == {i \in 1..Len(script) : script[i].m \in {"status", "writeHead"}} IN
  IF idx = {} THEN 200
  ELSE script[CHOOSE i \in idx : \A j \in idx : j <= i].code

IsBodyCall(c) == c.m \in {"write", "end"} /\ c.chunk # NoChunk
CallChunk(c) == c.chunk
RECURSIVE ChunksOf(_)
\* The body chunks of a sequence of calls, in order.
ChunksOf(calls) ==
  IF calls = <<>> THEN <<>>
  ELSE (IF IsBodyCall(Head(calls)) THEN <<CallChunk(Head(calls))>> ELSE <<>>)
         \o ChunksOf(Tail(calls))

HandlerDone == hpos > Len(handler.script)

\* ---- the underlying response (the original writeHead / write / end) ----
FreshResponse ==
  [ statusCode |-> 200,
    xPaymentResponse |-> NoText,
    headersSent |-> FALSE,
    sentStatus |-> 0,
    sentXPaymentResponse |-> NoText,
    body |-> <<>>,
    finished |-> FALSE,
    calls |-> <<>> ]

\* The status line and headers go out with the response's current values.
SendHeaders(r, code) ==
  [r EXCEPT !.statusCode = code, !.headersSent = TRUE, !.sentStatus = code,
            !.sentXPaymentResponse = r.xPaymentResponse]

Logged(r, c) == [r EXCEPT !.calls = Append(r.calls, c)]

\* A call on the underlying response that throws (ERR_HTTP_HEADERS_SENT).
OrigThrows(r, c) == c.m = "writeHead" /\ r.headersSent

originalWriteHead(r, c) ==
  IF r.headersSent THEN Logged(r, c) ELSE Logged(SendHeaders(r, c.code), c)

originalWrite(r, c) ==
  IF r.finished THEN Logged(r, c)
  ELSE LET h == IF r.headersSent THEN r ELSE SendHeaders(r, r.statusCode) IN
       Logged([h EXCEPT !.body = Append(h.body, c.chunk)], c)

originalEnd(r, c) ==
  IF r.finished THEN Logged(r, c)
  ELSE LET h == IF r.headersSent THEN r ELSE SendHeaders(r, r.statusCode) IN
       Logged([h EXCEPT !.body = IF c.chunk = NoChunk THEN h.body
                                  ELSE Append(h.body, c.chunk),
                        !.finished = TRUE], c)

Original(r, c) ==
  CASE c.m = "writeHead" -> originalWriteHead(r, c)
    [] c.m = "write" -> originalWrite(r, c)
    [] c.m = "end" -> originalEnd(r, c)

\* res.status(code).json(body) of Express: json sets Content-Type, which
\* throws once the headers are sent, and then ends the response with the body.
StatusJson(r, code, body) ==
  IF r.headersSent THEN [r EXCEPT !.statusCode = code]
  ELSE originalEnd([r EXCEPT !.statusCode = code],
                   [m |-> "end", code |-> 0, chunk |-> body])

\* The catch of the handler's outer try: res.status(500).json(...)
VerificationErrorBody ==
  [src |-> "gate", kind |-> "json", x402Version |-> 1,
   error |-> "Payment verification error"]
OuterCatchMut(r) == StatusJson(r, 402, VerificationErrorBody)
OuterCatch(r) == StatusJson(r, 500, VerificationErrorBody)

\* A gate reply inside the outer try: a throw lands in the outer catch.
GateJson(r, code, body) ==
  IF r.headersSent THEN OuterCatch(r) ELSE StatusJson(r, code, body)

\* ---- the buffering wrapper ----
\* if (!settled) { bufferedCalls.push(...) } else original(...)
ShouldBufferMut(w, s) == FALSE
ShouldBuffer(w, s) == w /\ ~s

HandlerCallMut(st, c, w, s) ==
  IF c.m = "status" THEN [st EXCEPT !.res.statusCode = c.code]
  ELSE IF ShouldBuffer(w, s) /\ c.m # "writeHead"
    THEN [st EXCEPT !.buf = Append(st.buf, c)]
  ELSE [st EXCEPT !.res = Original(st.res, c),
                  !.threw = OrigThrows(st.res, c)]
\* One call of the handler on res; st is [res, buf, threw].
HandlerCall(st, c, w, s) ==
  IF c.m = "status" THEN [st EXCEPT !.res.statusCode = c.code]
  ELSE IF ShouldBuffer(w, s) THEN [st EXCEPT !.buf = Append(st.buf, c)]
  ELSE [st EXCEPT !.res = Original(st.res, c),
                  !.threw = OrigThrows(st.res, c)]

RECURSIVE RunCalls(_, _, _, _)
\* The calls the handler issues in one synchronous run.
RunCalls(st, calls, w, s) ==
  IF calls = <<>> \/ st.threw THEN st
  ELSE RunCalls(HandlerCall(st, Head(calls), w, s), Tail(calls), w, s)

RECURSIVE replayBufferedCalls(_, _)
\* replayBufferedCalls(): a call that throws ends the replay in the outer catch.
replayBufferedCallsMut(r, calls) ==
  IF calls = <<>> THEN r
  ELSE IF OrigThrows(r, Head(calls)) THEN OuterCatch(Logged(r, Head(calls)))
  ELSE replayBufferedCalls(Original(r, Head(calls)),
                           IF Len(calls) >= 2 /\ calls[2].m = "write"
                             THEN Tail(Tail(calls)) ELSE Tail(calls))
replayBufferedCalls(r, calls) ==
  IF calls = <<>> THEN r
  ELSE IF OrigThrows(r, Head(calls)) THEN OuterCatch(Logged(r, Head(calls)))
  ELSE replayBufferedCalls(Original(r, Head(calls)), Tail(calls))

\* ---- the gate's reply bodies ----
ChallengeBody(r) ==
  IF isBrowserRequest(r)
    THEN [src |-> "gate", kind |-> "html",
          paymentRequirements |-> PaymentRequirements(r.matchingRoute)]
    ELSE [src |-> "gate", kind |-> "json", x402Version |-> 1,
          error |-> "Payment Required",
          accepts |-> <<PaymentRequirements(r.matchingRoute)>>]

ErrorBody(r, error, payer) ==
  [src |-> "gate", kind |-> "json", x402Version |-> 1, error |-> error,
   accepts |-> <<PaymentRequirements(r.matchingRoute)>>, payer |-> payer]

\* verifyResult.invalidReason || "Payment verification failed"
VerifyErrorMut(vr) == "Payment verification failed"
VerifyError(vr) ==
  IF vr.invalidReason # "" THEN vr.invalidReason
  ELSE "Payment verification failed"

\* settleResult.errorReason || "Payment settlement failed"
SettleError(sr) ==
  IF sr.errorReason # "" THEN sr.errorReason ELSE "Payment settlement failed"

\* The object encoded into X-PAYMENT-RESPONSE.
SettleHeaderFieldsMut(sr) ==
  JObj(<< <<K_success, JBool(TRUE)>>,
          <<K_transaction, JStr(sr.transaction)>>,
          <<K_network, JStr(sr.network)>>,
          <<K_payer, JStr(sr.network)>> >>)
SettleHeaderFields(sr) ==
  JObj(<< <<K_success, JBool(TRUE)>>,
          <<K_transaction, JStr(sr.transaction)>>,
          <<K_network, JStr(sr.network)>>,
          <<K_payer, JStr(sr.payer)>> >>)

\* res.set("X-PAYMENT-RESPONSE", ...)
SetPaymentResponse(r, sr) ==
  [r EXCEPT !.xPaymentResponse = encodePaymentHeader(SettleHeaderFields(sr))]

\* ---- what the facilitator can answer ----
NoVerify == [isValid |-> FALSE, invalidReason |-> "", payer |-> NoText]
NoSettle ==
  [success |-> FALSE, errorReason |-> "", payer |-> NoText,
   transaction |-> NoText, network |-> NoText]

VerifyResponses ==
  {[isValid |-> TRUE, invalidReason |-> "", payer |-> PayerA]}
  \cup [ isValid : {FALSE},
         invalidReason : {"invalid_exact_stellar_payload_amount_mismatch",
                          "invalid_exact_stellar_payload_transaction_expired",
                          ""},
         payer : {PayerA} ]

SettleResponses ==
  [ success : {TRUE}, errorReason : {""}, payer : {PayerA},
    transaction : {TxHash1, TxHash2}, network : {StellarTestnet} ]
  \cup [ success : {FALSE},
         errorReason : {"settle_exact_stellar_transaction_failed",
                        "settle_exact_stellar_fee_bump_failed", ""},
         payer : {PayerA}, transaction : {NoText}, network : {StellarTestnet} ]

FacilitatorCallMut(op, r) ==
  [op |-> op, payload |-> DecodedHeader(r).val,
   requirements |-> IF op = "settle"
                      THEN [PaymentRequirements(r.matchingRoute)
                              EXCEPT !.maxTimeoutSeconds = 60]
                      ELSE PaymentRequirements(r.matchingRoute)]
FacilitatorCall(op, r) ==
  [op |-> op, payload |-> DecodedHeader(r).val,
   requirements |-> PaymentRequirements(r.matchingRoute)]

\* next(): the handler is invoked and runs up to its first suspension.
InvokeHandler(h, w) ==
  LET st == RunCalls([res |-> res, buf |-> bufferedCalls, threw |-> FALSE],
                     SubSeq(h.script, 1, h.sync), w, FALSE)
  IN  /\ res' = st.res
      /\ bufferedCalls' = st.buf
      /\ hpos' = IF st.threw THEN Len(h.script) + 1 ELSE h.sync + 1
      /\ nextCalls' = nextCalls + 1

PassThroughMut(r, h) ==
  /\ gpc = "idle"
  /\ r.matchingRoute = NoRoute
  /\ req' = r
  /\ handler' = h
  /\ wrapped' = TRUE
  /\ InvokeHandler(h, TRUE)
  /\ gpc' = "done"
  /\ UNCHANGED <<pureVars, fetchVars, discVars, facVars, settled, facilitatorCalls, verifyOutcome,
                 verifyResult, settleOutcome, settleResult>>
\* if (!matchingRoute) return next();
PassThrough(r, h) ==
  /\ gpc = "idle"
  /\ r.matchingRoute = NoRoute
  /\ req' = r
  /\ handler' = h
  /\ InvokeHandler(h, FALSE)
  /\ gpc' = "done"
  /\ UNCHANGED <<pureVars, fetchVars, discVars, facVars, settled, wrapped, facilitatorCalls, verifyOutcome,
                 verifyResult, settleOutcome, settleResult>>

\* if (!paymentHeader) { 402 with the paywall or the JSON challenge }
Challenge(r) ==
  /\ gpc = "idle"
  /\ r.matchingRoute # NoRoute
  /\ HeaderMissing(r)
  /\ req' = r
  /\ res' = StatusJson(res, 402, ChallengeBody(r))
  /\ gpc' = "done"
  /\ UNCHANGED <<pureVars, fetchVars, discVars, facVars, handler, hpos, bufferedCalls, settled, wrapped, facilitatorCalls,
                 verifyOutcome, verifyResult, settleOutcome, settleResult,
                 nextCalls>>

\* decodePaymentHeader throws: 402 "Invalid payment header"
InvalidHeader(r) ==
  /\ gpc = "idle"
  /\ r.matchingRoute # NoRoute
  /\ ~HeaderMissing(r)
  /\ ~DecodedHeader(r).ok
  /\ req' = r
  /\ res' = StatusJson(res, 402, ErrorBody(r, "Invalid payment header", NoText))
  /\ gpc' = "done"
  /\ UNCHANGED <<pureVars, fetchVars, discVars, facVars, handler, hpos, bufferedCalls, settled, wrapped, facilitatorCalls,
                 verifyOutcome, verifyResult, settleOutcome, settleResult,
                 nextCalls>>

\* await verify(paymentPayload, paymentRequirements): the call is made
CallVerify(r) ==
  /\ gpc = "idle"
  /\ r.matchingRoute # NoRoute
  /\ ~HeaderMissing(r)
  /\ DecodedHeader(r).ok
  /\ req' = r
  /\ facilitatorCalls' = Append(facilitatorCalls, FacilitatorCall("verify", r))
  /\ gpc' = "verifying"
  /\ UNCHANGED <<pureVars, fetchVars, discVars, facVars, handler, hpos, res, bufferedCalls, settled, wrapped, verifyOutcome,
                 verifyResult, settleOutcome, settleResult, nextCalls>>

\* verify throws (transport failure, non-200 reply): the outer catch, 500
VerifyThrows ==
  /\ gpc = "verifying"
  /\ verifyOutcome' = "threw"
  /\ res' = OuterCatch(res)
  /\ gpc' = "done"
  /\ UNCHANGED <<pureVars, fetchVars, discVars, facVars, req, handler, hpos, bufferedCalls, settled, wrapped,
                 facilitatorCalls, verifyResult, settleOutcome, settleResult,
                 nextCalls>>

\* if (!verifyResult.isValid) { 402 with invalidReason }
VerifyInvalid(vr) ==
  /\ gpc = "verifying"
  /\ ~vr.isValid
  /\ verifyOutcome' = "invalid"
  /\ verifyResult' = vr
  /\ res' = GateJson(res, 402, ErrorBody(req, VerifyError(vr), vr.payer))
  /\ gpc' = "done"
  /\ UNCHANGED <<pureVars, fetchVars, discVars, facVars, req, handler, hpos, bufferedCalls, settled, wrapped,
                 facilitatorCalls, settleOutcome, settleResult, nextCalls>>

\* verify accepted: wrap res.writeHead/write/end and call next(), which runs
\* the route's handler h
VerifyValid(vr, h) ==
  /\ gpc = "verifying"
  /\ vr.isValid
  /\ verifyOutcome' = "valid"
  /\ verifyResult' = vr
  /\ wrapped' = TRUE
  /\ handler' = h
  /\ InvokeHandler(h, TRUE)
  /\ gpc' = "awaitNext"
  /\ UNCHANGED <<pureVars, fetchVars, discVars, facVars, req, settled, facilitatorCalls, settleOutcome,
                 settleResult>>

\* A later call of the handler (after a suspension), through res as it is now.
HandlerStep ==
  /\ hpos >= 1
  /\ hpos <= Len(handler.script)
  /\ LET st == HandlerCall([res |-> res, buf |-> bufferedCalls, threw |-> FALSE],
                           handler.script[hpos], wrapped, settled)
     IN  /\ res' = st.res
         /\ bufferedCalls' = st.buf
         /\ hpos' = IF st.threw THEN Len(handler.script) + 1 ELSE hpos + 1
  /\ UNCHANGED <<pureVars, fetchVars, discVars, facVars, req, gpc, handler, settled, wrapped, facilitatorCalls,
                 verifyOutcome, verifyResult, settleOutcome, settleResult,
                 nextCalls>>

\* after await next(): if (res.statusCode >= 400) { restore; replay; return }
ReleaseHandlerError ==
  /\ gpc = "awaitNext"
  /\ res.statusCode >= 400
  /\ settled' = TRUE
  /\ wrapped' = FALSE
  /\ res' = replayBufferedCalls(res, bufferedCalls)
  /\ bufferedCalls' = <<>>
  /\ gpc' = "done"
  /\ UNCHANGED <<pureVars, fetchVars, discVars, facVars, req, handler, hpos, facilitatorCalls, verifyOutcome,
                 verifyResult, settleOutcome, settleResult, nextCalls>>

\* after await next(): await settle(paymentPayload, paymentRequirements)
CallSettle ==
  /\ gpc = "awaitNext"
  /\ res.statusCode < 400
  /\ facilitatorCalls' = Append(facilitatorCalls, FacilitatorCall("settle", req))
  /\ gpc' = "settling"
  /\ UNCHANGED <<pureVars, fetchVars, discVars, facVars, req, handler, hpos, res, bufferedCalls, settled, wrapped,
                 verifyOutcome, verifyResult, settleOutcome, settleResult,
                 nextCalls>>

\* settleResult.success: set X-PAYMENT-RESPONSE, restore, replay
SettleSuccess(sr) ==
  /\ gpc = "settling"
  /\ sr.success
  /\ settleOutcome' = "success"
  /\ settleResult' = sr
  /\ IF res.headersSent
       THEN \* res.set throws: the outer catch; the wrappers stay
            /\ res' = OuterCatch(res)
            /\ UNCHANGED <<settled, wrapped, bufferedCalls>>
       ELSE /\ settled' = TRUE
            /\ wrapped' = FALSE
            /\ res' = replayBufferedCalls(SetPaymentResponse(res, sr),
                                          bufferedCalls)
            /\ bufferedCalls' = <<>>
  /\ gpc' = "done"
  /\ UNCHANGED <<pureVars, fetchVars, discVars, facVars, req, handler, hpos, facilitatorCalls, verifyOutcome,
                 verifyResult, nextCalls>>

\* !settleResult.success: restore, discard the buffer, 402 with errorReason
SettleFailure(sr) ==
  /\ gpc = "settling"
  /\ ~sr.success
  /\ settleOutcome' = "failure"
  /\ settleResult' = sr
  /\ settled' = TRUE
  /\ wrapped' = FALSE
  /\ bufferedCalls' = <<>>
  /\ res' = GateJson(res, 402, ErrorBody(req, SettleError(sr), sr.payer))
  /\ gpc' = "done"
  /\ UNCHANGED <<pureVars, fetchVars, discVars, facVars, req, handler, hpos, facilitatorCalls, verifyOutcome,
                 verifyResult, nextCalls>>

\* settle throws: the inner catch: restore, discard the buffer, 402
SettleThrows ==
  /\ gpc = "settling"
  /\ settleOutcome' = "threw"
  /\ settled' = TRUE
  /\ wrapped' = FALSE
  /\ bufferedCalls' = <<>>
  /\ res' = StatusJson(res, 402,
                       ErrorBody(req, "Payment settlement failed", NoText))
  /\ gpc' = "done"
  /\ UNCHANGED <<pureVars, fetchVars, discVars, facVars, req, handler, hpos, facilitatorCalls, verifyOutcome,
                 verifyResult, settleResult, nextCalls>>


(***************************************************************************)
(* The facilitator: settle of the exact scheme on Stellar, the ledger it   *)
(* submits to (Horizon for the native asset, Soroban RPC for a contract    *)
(* asset), and the verification and replay store of the facilitator        *)
(* service.                                                                *)
(***************************************************************************)
\* The number of callers of settle that run concurrently.
NCallers == 2
\* The ledger at which the payloads of the model expire.
Expiry == 5

Callers == 1..NCallers

\* STELLAR_NETWORKS[network]
SupportedNetworks == {"stellar-testnet", "stellar"}

\* ---- signed transactions (what signedTxXdr decodes to) ----
NoXdr == "none"
PaymentOp(dest, amt, asset) ==
  [type |-> "payment", destination |-> dest, amount |-> amt, asset |-> asset]
TransferOp(contract, frm, to, amt) ==
  [type |-> "transfer", destination |-> to, amount |-> amt, asset |-> contract,
   from |-> frm]
Tx(id, src, net, ops) ==
  [kind |-> "tx", id |-> id, source |-> src, network |-> net, ops |-> ops]
\* A fee-bump envelope around inner, paid by feeSource.
FeeBumpMut(feeSource, inner) ==
  [kind |-> "feeBump", id |-> inner.id, source |-> inner.source,
   network |-> inner.network, ops |-> inner.ops, feeSource |-> feeSource,
   inner |-> [inner EXCEPT !.source = feeSource]]
FeeBump(feeSource, inner) ==
  [kind |-> "feeBump", id |-> inner.id, source |-> inner.source,
   network |-> inner.network, ops |-> inner.ops, feeSource |-> feeSource,
   inner |-> inner]

TxPay == Tx("tPay", "GA", "stellar-testnet", <<PaymentOp(PayTo, 10000000, "native")>>)
TxSac == Tx("tSac", "GA", "stellar-testnet", <<TransferOp("CUSDC", "GA", PayTo, 500000)>>)

Xdrs == {"xdrPay", "xdrSac", "xdrBumped", "garbage"}

\* The signed transactions that verify is tried on: one or two operations of
\* one kind, paying amt of asset to dest from src on network net.
VerifyCases ==
  [ dest : {PayTo, "GOTHER"},
    amt : {499999, 500000, 9999999, 10000000, 10000001},
    asset : {"native", "CUSDC"},
    net : {"stellar-testnet", "stellar"},
    src : {"GA", "GNONE"},
    nops : {1, 2} ]
CaseXdr(c) ==
  "xdr:" \o c.dest \o ":" \o ToString(c.amt) \o ":" \o c.asset \o ":" \o c.net
         \o ":" \o c.src \o ":" \o ToString(c.nops)
CaseTx(c) ==
  LET op == IF c.asset = "native" THEN PaymentOp(c.dest, c.amt, "native")
            ELSE TransferOp(c.asset, c.src, c.dest, c.amt)
  IN  Tx(CaseXdr(c), c.src, c.net, [i \in 1..c.nops |-> op])

\* TransactionBuilder.fromXDR(xdr, passphrase); "garbage" does not parse.
ParsesAsXdr(xdr) ==
  \/ xdr \in Xdrs \ {"garbage"}
  \/ \E c \in VerifyCases : CaseXdr(c) = xdr
fromXDR(xdr) ==
  CASE xdr = "xdrPay" -> TxPay
    [] xdr = "xdrSac" -> TxSac
    [] xdr = "xdrBumped" -> FeeBump("GA", TxPay)
    [] OTHER -> CaseTx(CHOOSE c \in VerifyCases : CaseXdr(c) = xdr)

\* tx.hash(): a fee-bump envelope has a hash of its own.
NoHash == <<>>
HashOf(env) ==
  IF env.kind = "feeBump" THEN <<"feeBump", env.feeSource, env.id>>
  ELSE <<"tx", env.id>>
\* The hash of the caller's inner transaction.
InnerHashOf(env) == <<"tx", env.id>>

\* ---- payloads and requirements ----
Payload(net, xdr, validUntil) ==
  [ x402Version |-> 1, scheme |-> "exact", network |-> net,
    payload |-> [signedTxXdr |-> xdr, sourceAccount |-> "GA",
                 validUntilLedger |-> validUntil] ]

FacPayloads ==
  { Payload("stellar-testnet", x, Expiry) : x \in Xdrs \cup {NoXdr} }
  \cup { Payload("base-sepolia", "xdrPay", Expiry) }

FacRequirements ==
  { [scheme |-> "exact", network |-> "stellar-testnet",
     maxAmountRequired |-> 10000000, payTo |-> PayTo, asset |-> "native",
     maxTimeoutSeconds |-> 300],
    [scheme |-> "exact", network |-> "stellar-testnet",
     maxAmountRequired |-> 500000, payTo |-> PayTo, asset |-> "CUSDC",
     maxTimeoutSeconds |-> 300] }

\* ---- results ----
\* The closed enumeration of error reasons.
StellarErrorReasons ==
  { "insufficient_funds", "invalid_network", "invalid_payload",
    "invalid_payment_requirements", "invalid_scheme", "invalid_payment",
    "payment_expired", "unsupported_scheme", "invalid_x402_version",
    "invalid_transaction_state", "unexpected_settle_error",
    "unexpected_verify_error",
    "invalid_exact_stellar_payload_missing_signed_tx_xdr",
    "invalid_exact_stellar_payload_invalid_xdr",
    "invalid_exact_stellar_payload_source_account_not_found",
    "invalid_exact_stellar_payload_insufficient_balance",
    "invalid_exact_stellar_payload_amount_mismatch",
    "invalid_exact_stellar_payload_destination_mismatch",
    "invalid_exact_stellar_payload_asset_mismatch",
    "invalid_exact_stellar_payload_network_mismatch",
    "invalid_exact_stellar_payload_missing_required_fields",
    "invalid_exact_stellar_payload_transaction_expired",
    "invalid_exact_stellar_payload_transaction_already_used",
    "settle_exact_stellar_transaction_failed",
    "settle_exact_stellar_fee_bump_failed" }

SettleResponse(ok, reason, payer, hash, net) ==
  [success |-> ok, errorReason |-> reason, payer |-> payer,
   transaction |-> hash, network |-> net]
Failed(p, reason, hash) ==
  SettleResponse(FALSE, reason, p.payload.sourceAccount, hash, p.network)
SucceededMut(p, hash) ==
  SettleResponse(TRUE, "", p.payload.sourceAccount, NoHash, p.network)
Succeeded(p, hash) ==
  SettleResponse(TRUE, "", p.payload.sourceAccount, hash, p.network)

IdleCall ==
  [pc |-> "idle", payload |-> Payload("stellar-testnet", NoXdr, 0),
   requirements |-> CHOOSE r \in FacRequirements : r.asset = "native",
   env |-> TxPay, txHash |-> NoHash,
   result |-> SettleResponse(FALSE, "", "", NoHash, "")]

NotVerified ==
  [payload |-> IdleCall.payload,
   result |-> [isValid |-> FALSE, invalidReason |-> "", payer |-> ""],
   settledBefore |-> {}]

\* ---- verify (facilitator service): steps 1 to 7 of the verify algorithm ----
SubmissionFee == 100
HasTrustline(account, asset) == account = "GA"
Invalid(reason, payer) == [isValid |-> FALSE, invalidReason |-> reason, payer |-> payer]
\* amount >= requirements.maxAmountRequired (the payer may overpay)
AmountCoversMut(amount, required) == amount = required
AmountCovers(amount, required) == amount >= required
\* current ledger sequence > validUntilLedger
ExpiredMut(seq, validUntil) == seq > validUntil + 1
Expired(seq, validUntil) == seq > validUntil
Verify(p, rq, store, bal, seq) ==
  LET payer == p.payload.sourceAccount
      xdr == p.payload.signedTxXdr
  IN
  IF p.x402Version # 1 THEN Invalid("invalid_x402_version", payer)
  ELSE IF p.scheme # "exact" THEN Invalid("invalid_scheme", payer)
  ELSE IF p.network \notin SupportedNetworks THEN Invalid("invalid_network", payer)
  ELSE IF xdr = NoXdr
    THEN Invalid("invalid_exact_stellar_payload_missing_signed_tx_xdr", payer)
  ELSE IF ~ParsesAsXdr(xdr)
    THEN Invalid("invalid_exact_stellar_payload_invalid_xdr", payer)
  ELSE
    LET tx == fromXDR(xdr)
        op == tx.ops[1]
    IN
    IF Len(tx.ops) # 1
      THEN Invalid("invalid_exact_stellar_payload_missing_required_fields", payer)
    ELSE IF op.destination # rq.payTo
      THEN Invalid("invalid_exact_stellar_payload_destination_mismatch", payer)
    ELSE IF ~AmountCovers(op.amount, rq.maxAmountRequired)
      THEN Invalid("invalid_exact_stellar_payload_amount_mismatch", payer)
    ELSE IF op.asset # rq.asset
      THEN Invalid("invalid_exact_stellar_payload_asset_mismatch", payer)
    ELSE IF tx.network # p.network \/ p.network # rq.network
      THEN Invalid("invalid_exact_stellar_payload_network_mismatch", payer)
    ELSE IF tx.source \notin DOMAIN bal
      THEN Invalid("invalid_exact_stellar_payload_source_account_not_found", payer)
    ELSE IF rq.asset = "native" /\ bal[tx.source] < op.amount + SubmissionFee
      THEN Invalid("invalid_exact_stellar_payload_insufficient_balance", payer)
    ELSE IF rq.asset # "native" /\ ~HasTrustline(tx.source, rq.asset)
      THEN Invalid("invalid_exact_stellar_payload_insufficient_balance", payer)
    ELSE IF Expired(seq, p.payload.validUntilLedger)
      THEN Invalid("invalid_exact_stellar_payload_transaction_expired", payer)
    ELSE IF InnerHashOf(tx) \in store
      THEN Invalid("invalid_exact_stellar_payload_transaction_already_used", payer)
    ELSE [isValid |-> TRUE, invalidReason |-> "", payer |-> payer]

\* ---- the ledger ----
\* The ledger applies a transaction at most once (its sequence number is
\* consumed); a native payment moves the amount out of the source account.
CanApply(env) ==
  /\ env.id \notin applied
  /\ env.source \in DOMAIN balance
  /\ \A i \in 1..Len(env.ops) :
       env.ops[i].asset = "native" => balance[env.source] >= env.ops[i].amount
Apply(env) ==
  /\ applied' = applied \cup {env.id}
  /\ balance' =
       IF env.ops[1].asset = "native"
         THEN [balance EXCEPT ![env.source] = @ - env.ops[1].amount]
         ELSE balance

Return(c, r) == call' = [call EXCEPT ![c].pc = "done", ![c].result = r]

\* settle(payload, paymentRequirements) up to its first await
\* (settleNativeXlm: server.submitTransaction; settleSacToken: sendTransaction)
SettleBegin(c, p, rq) ==
  /\ call[c].pc = "idle"
  /\ \A d \in Callers : d < c => call[d].pc # "idle"
  /\ LET me == [call[c] EXCEPT !.payload = p, !.requirements = rq]
         xdr == p.payload.signedTxXdr
     IN
     IF p.network \notin SupportedNetworks
       THEN /\ call' = [call EXCEPT ![c] = [me EXCEPT !.pc = "done",
                          !.result = Failed(p, "invalid_network", NoHash)]]
            /\ UNCHANGED submissions
     ELSE IF xdr = NoXdr
       THEN /\ call' = [call EXCEPT ![c] = [me EXCEPT !.pc = "done",
                          !.result = Failed(p,
                            "invalid_exact_stellar_payload_missing_signed_tx_xdr",
                            NoHash)]]
            /\ UNCHANGED submissions
     ELSE IF rq.asset = "native"
       THEN IF ~ParsesAsXdr(xdr)
              THEN /\ call' = [call EXCEPT ![c] = [me EXCEPT !.pc = "done",
                                 !.result = Failed(p,
                                   "invalid_exact_stellar_payload_invalid_xdr",
                                   NoHash)]]
                   /\ UNCHANGED submissions
              ELSE LET tx == fromXDR(xdr)
                       innerTx == IF tx.kind = "feeBump" THEN tx.inner ELSE tx
                       env == IF feeSponsor THEN FeeBump("GFACILITATOR", innerTx)
                              ELSE tx
                   IN  /\ call' = [call EXCEPT ![c] = [me EXCEPT !.pc = "submit",
                                     !.env = env, !.txHash = HashOf(tx)]]
                       /\ submissions' = Append(submissions, env)
       ELSE \* new Stellar.Transaction(xdr, passphrase) throws for what is
            \* not a transaction envelope: the outer catch of settleSacToken
            IF ~ParsesAsXdr(xdr) \/ fromXDR(xdr).kind = "feeBump"
              THEN /\ call' = [call EXCEPT ![c] = [me EXCEPT !.pc = "done",
                                 !.result = Failed(p,
                                   "settle_exact_stellar_transaction_failed",
                                   NoHash)]]
                   /\ UNCHANGED submissions
              ELSE /\ call' = [call EXCEPT ![c] = [me EXCEPT !.pc = "send",
                                 !.env = fromXDR(xdr)]]
                   /\ submissions' = Append(submissions, fromXDR(xdr))
  /\ UNCHANGED <<pureVars, fetchVars, discVars, gateVars, feeSponsor, applied, balance, currentLedger, replayStore,
                 lastVerify>>

\* server.submitTransaction resolves: the ledger applied the envelope, or
\* Horizon answers for an envelope it has already included.
SubmitAccepted(c) ==
  /\ call[c].pc = "submit"
  /\ \/ CanApply(call[c].env) /\ Apply(call[c].env)
     \/ /\ \E i \in 1..Len(submissions) :
             /\ HashOf(submissions[i]) = HashOf(call[c].env)
             /\ call[c].env.id \in applied
        /\ UNCHANGED <<applied, balance>>
  /\ Return(c, Succeeded(call[c].payload, HashOf(call[c].env)))
  /\ UNCHANGED <<pureVars, fetchVars, discVars, gateVars, feeSponsor, currentLedger, submissions, replayStore, lastVerify>>

\* server.submitTransaction rejects (tx_bad_seq, underfunded, a network error)
SubmitRejected(c) ==
  /\ call[c].pc = "submit"
  /\ Return(c, Failed(call[c].payload,
                      IF feeSponsor THEN "settle_exact_stellar_fee_bump_failed"
                      ELSE "settle_exact_stellar_transaction_failed",
                      NoHash))
  /\ UNCHANGED <<pureVars, fetchVars, discVars, gateVars, feeSponsor, applied, balance, currentLedger, submissions,
                 replayStore, lastVerify>>

\* sendTransaction answers PENDING: go on to poll
SendPending(c) ==
  /\ call[c].pc = "send"
  /\ call' = [call EXCEPT ![c].pc = "poll", ![c].txHash = HashOf(call[c].env)]
  /\ UNCHANGED <<pureVars, fetchVars, discVars, gateVars, feeSponsor, applied, balance, currentLedger, submissions,
                 replayStore, lastVerify>>

\* sendTransaction answers another status (ERROR, DUPLICATE, TRY_AGAIN_LATER)
\* or throws
SendRefused(c) ==
  /\ call[c].pc = "send"
  /\ Return(c, Failed(call[c].payload,
                      "settle_exact_stellar_transaction_failed", NoHash))
  /\ UNCHANGED <<pureVars, fetchVars, discVars, gateVars, feeSponsor, applied, balance, currentLedger, submissions,
                 replayStore, lastVerify>>

\* pollTransaction ends with status SUCCESS
PollSuccess(c) ==
  /\ call[c].pc = "poll"
  /\ CanApply(call[c].env)
  /\ Apply(call[c].env)
  /\ Return(c, Succeeded(call[c].payload, call[c].txHash))
  /\ UNCHANGED <<pureVars, fetchVars, discVars, gateVars, feeSponsor, currentLedger, submissions, replayStore, lastVerify>>

\* pollTransaction ends with another status (FAILED, NOT_FOUND)
PollFailed(c) ==
  /\ call[c].pc = "poll"
  /\ Return(c, Failed(call[c].payload,
                      "settle_exact_stellar_transaction_failed", call[c].txHash))
  /\ UNCHANGED <<pureVars, fetchVars, discVars, gateVars, feeSponsor, applied, balance, currentLedger, submissions,
                 replayStore, lastVerify>>

\* pollTransaction throws: settle answers success with the hash it sent;
\* the ledger may or may not have applied the transaction.
PollThrows(c) ==
  /\ call[c].pc = "poll"
  /\ \/ CanApply(call[c].env) /\ Apply(call[c].env)
     \/ UNCHANGED <<applied, balance>>
  /\ Return(c, Succeeded(call[c].payload, call[c].txHash))
  /\ UNCHANGED <<pureVars, fetchVars, discVars, gateVars, feeSponsor, currentLedger, submissions, replayStore, lastVerify>>

\* verify(payload, requirements) of the facilitator service, for the payload
\* that caller c settles
VerifyCall(c) ==
  /\ call[c].pc # "idle"
  /\ lastVerify' =
       [ payload |-> call[c].payload,
         result |-> Verify(call[c].payload, call[c].requirements, replayStore,
                           balance, currentLedger),
         settledBefore |-> { call[d].payload : d \in
                              {e \in Callers : /\ call[e].pc = "done"
                                               /\ call[e].result.success} } ]
  /\ UNCHANGED <<pureVars, fetchVars, discVars, gateVars, feeSponsor, applied, balance, currentLedger,
                 submissions, replayStore, call>>

(***************************************************************************)
(* Specifications.                                                         *)
(***************************************************************************)
vars == <<gateVars, facVars, pureVars, fetchVars, discVars>>

\* The gate serving one request; the facilitator is at rest.
InitGate ==
  /\ req = [matchingRoute |-> NoRoute, header |-> "absent",
            acceptsHtml |-> FALSE, mozilla |-> FALSE]
  /\ gpc = "idle"
  /\ handler = [script |-> <<OpEndEmpty>>, sync |-> 0]
  /\ hpos = 0
  /\ res = FreshResponse
  /\ bufferedCalls = <<>>
  /\ settled = FALSE
  /\ wrapped = FALSE
  /\ facilitatorCalls = <<>>
  /\ verifyOutcome = "none"
  /\ verifyResult = NoVerify
  /\ settleOutcome = "none"
  /\ settleResult = NoSettle
  /\ nextCalls = 0
  /\ feeSponsor = FALSE
  /\ applied = {}
  /\ balance = [a \in {"GA"} |-> 30000000]
  /\ currentLedger = 1
  /\ submissions = <<>>
  /\ replayStore = {}
  /\ call = [c \in Callers |-> IdleCall]
  /\ lastVerify = NotVerified
  /\ wf = IdleFetch
  /\ sent = <<>>
  /\ signed = <<>>
  /\ dstore = <<>>
  /\ now = 1
  /\ touch = NoTouch
  /\ dresult = NoResult
  /\ removed = {}
  /\ input = NoInput
  /\ output = NoOutput

NextGate ==
  \/ \E r \in Requests, h \in Handlers : PassThrough(r, h)
  \/ \E r \in Requests : Challenge(r)
  \/ \E r \in Requests : InvalidHeader(r)
  \/ \E r \in Requests : CallVerify(r)
  \/ VerifyThrows
  \/ \E vr \in VerifyResponses : VerifyInvalid(vr)
  \/ \E vr \in VerifyResponses, h \in Handlers : VerifyValid(vr, h)
  \/ HandlerStep
  \/ ReleaseHandlerError
  \/ CallSettle
  \/ \E sr \in SettleResponses : SettleSuccess(sr)
  \/ \E sr \in SettleResponses : SettleFailure(sr)
  \/ SettleThrows

SpecGate == InitGate /\ [][NextGate]_vars

(***************************************************************************)
(* The earlier variant of paymentMiddlewareHandler (middleware.ts 66-185): *)
(* no buffering; settle is called before next(), and a "finish" listener   *)
(* registered after verify calls settle when the response ended with 2xx.  *)
(* The steps up to the answer of verify are those of the later variant.    *)
(***************************************************************************)
\* if (!paymentHeader) { res.status(402).json({... "Payment Required" ...}) }
EarlierChallenge(r) ==
  /\ gpc = "idle"
  /\ r.matchingRoute # NoRoute
  /\ HeaderMissing(r)
  /\ req' = r
  /\ res' = StatusJson(res, 402,
                       [src |-> "gate", kind |-> "json", x402Version |-> 1,
                        error |-> "Payment Required",
                        accepts |-> <<PaymentRequirements(r.matchingRoute)>>])
  /\ gpc' = "done"
  /\ UNCHANGED <<pureVars, fetchVars, discVars, facVars, handler, hpos, bufferedCalls, settled, wrapped, facilitatorCalls,
                 verifyOutcome, verifyResult, settleOutcome, settleResult,
                 nextCalls>>

\* verify accepted: res.on("finish", ...) is registered and
\* await settle(paymentPayload, paymentRequirements) is called
EarlierVerifyValid(vr) ==
  /\ gpc = "verifying"
  /\ vr.isValid
  /\ verifyOutcome' = "valid"
  /\ verifyResult' = vr
  /\ facilitatorCalls' = Append(facilitatorCalls, FacilitatorCall("settle", req))
  /\ gpc' = "settleFirst"
  /\ UNCHANGED <<pureVars, fetchVars, discVars, facVars, req, handler, hpos, res, bufferedCalls, settled, wrapped,
                 settleOutcome, settleResult, nextCalls>>

\* settle answered: X-PAYMENT-RESPONSE is set on success, and next() runs the
\* route's handler h either way
EarlierSettleReturns(sr, h) ==
  /\ gpc = "settleFirst"
  /\ settleOutcome' = IF sr.success THEN "success" ELSE "failure"
  /\ settleResult' = sr
  /\ handler' = h
  /\ LET r0 == IF sr.success THEN SetPaymentResponse(res, sr) ELSE res
         st == RunCalls([res |-> r0, buf |-> bufferedCalls, threw |-> FALSE],
                        SubSeq(h.script, 1, h.sync), FALSE, FALSE)
     IN  /\ res' = st.res
         /\ hpos' = IF st.threw THEN Len(h.script) + 1 ELSE h.sync + 1
  /\ nextCalls' = nextCalls + 1
  /\ gpc' = "done"
  /\ UNCHANGED <<pureVars, fetchVars, discVars, facVars, req, bufferedCalls, settled, wrapped, facilitatorCalls,
                 verifyOutcome, verifyResult>>

\* settle throws: the catch around verify and settle, 500
EarlierSettleThrows ==
  /\ gpc = "settleFirst"
  /\ settleOutcome' = "threw"
  /\ res' = OuterCatch(res)
  /\ gpc' = "done"
  /\ UNCHANGED <<pureVars, fetchVars, discVars, facVars, req, handler, hpos, bufferedCalls, settled, wrapped,
                 facilitatorCalls, verifyOutcome, verifyResult, settleResult,
                 nextCalls>>

\* The "finish" listener: if (res.statusCode >= 200 && res.statusCode < 300)
\* { await settle(paymentPayload, paymentRequirements) }; its answer is logged.
FinishListener ==
  /\ gpc = "done"
  /\ verifyOutcome = "valid"
  /\ res.finished
  /\ facilitatorCalls' =
       IF res.statusCode >= 200 /\ res.statusCode < 300
         THEN Append(facilitatorCalls, FacilitatorCall("settle", req))
         ELSE facilitatorCalls
  /\ gpc' = "finished"
  /\ UNCHANGED <<pureVars, fetchVars, discVars, facVars, req, handler, hpos, res, bufferedCalls, settled, wrapped,
                 verifyOutcome, verifyResult, settleOutcome, settleResult,
                 nextCalls>>

NextGateEarlier ==
  \/ \E r \in Requests, h \in Handlers : PassThrough(r, h)
  \/ \E r \in Requests : EarlierChallenge(r)
  \/ \E r \in Requests : InvalidHeader(r)
  \/ \E r \in Requests : CallVerify(r)
  \/ VerifyThrows
  \/ \E vr \in VerifyResponses : VerifyInvalid(vr)
  \/ \E vr \in VerifyResponses : EarlierVerifyValid(vr)
  \/ \E sr \in SettleResponses, h \in Handlers : EarlierSettleReturns(sr, h)
  \/ EarlierSettleThrows
  \/ HandlerStep
  \/ FinishListener

SpecGateEarlier == InitGate /\ [][NextGateEarlier]_vars

\* The facilitator serving its callers; the gate is at rest.
InitFacilitator ==
  /\ req = [matchingRoute |-> NoRoute, header |-> "absent",
            acceptsHtml |-> FALSE, mozilla |-> FALSE]
  /\ gpc = "idle"
  /\ handler = [script |-> <<OpEndEmpty>>, sync |-> 0]
  /\ hpos = 0
  /\ res = FreshResponse
  /\ bufferedCalls = <<>>
  /\ settled = FALSE
  /\ wrapped = FALSE
  /\ facilitatorCalls = <<>>
  /\ verifyOutcome = "none"
  /\ verifyResult = NoVerify
  /\ settleOutcome = "none"
  /\ settleResult = NoSettle
  /\ nextCalls = 0
  /\ feeSponsor \in BOOLEAN
  /\ applied = {}
  /\ balance = [a \in {"GA"} |-> 30000000]
  /\ currentLedger = 1
  /\ submissions = <<>>
  /\ replayStore = {}
  /\ call = [c \in Callers |-> IdleCall]
  /\ lastVerify = NotVerified
  /\ wf = IdleFetch
  /\ sent = <<>>
  /\ signed = <<>>
  /\ dstore = <<>>
  /\ now = 1
  /\ touch = NoTouch
  /\ dresult = NoResult
  /\ removed = {}
  /\ input = NoInput
  /\ output = NoOutput

NextFacilitator ==
  \/ \E c \in Callers, p \in FacPayloads, rq \in FacRequirements :
       SettleBegin(c, p, rq)
  \/ \E c \in Callers : SubmitAccepted(c)
  \/ \E c \in Callers : SubmitRejected(c)
  \/ \E c \in Callers : SendPending(c)
  \/ \E c \in Callers : SendRefused(c)
  \/ \E c \in Callers : PollSuccess(c)
  \/ \E c \in Callers : PollFailed(c)
  \/ \E c \in Callers : PollThrows(c)
  \/ \E c \in Callers : VerifyCall(c)

SpecFacilitator == InitFacilitator /\ [][NextFacilitator]_vars

(***************************************************************************)
(* Route rules (utils.ts): compileRoutePatterns and findMatchingRoute.     *)
(* A string is a sequence of one-character strings.                        *)
(***************************************************************************)
LowerLetters == <<"a", "b", "c", "e", "g", "o", "p", "s", "t", "u", "x", "y">>
UpperLetters == <<"A", "B", "C", "E", "G", "O", "P", "S", "T", "U", "X", "Y">>
ToUpperChar(c) ==
  IF \E i \in 1..Len(LowerLetters) : LowerLetters[i] = c
    THEN UpperLetters[CHOOSE i \in 1..Len(LowerLetters) : LowerLetters[i] = c]
    ELSE c
\* String.prototype.toUpperCase
toUpperCase(str) == [i \in 1..Len(str) |-> ToUpperChar(str[i])]

RECURSIVE Flatten(_)
\* The strings of parts joined: a global replace puts one replacement
\* string in the place of each character.
Flatten(parts) ==
  IF parts = <<>> THEN <<>> ELSE Head(parts) \o Flatten(Tail(parts))

RECURSIVE SplitSpaces(_, _)
\* pattern.split(/\s+/): the parts between runs of spaces; cur is the part
\* being read.
SplitSpaces(str, cur) ==
  IF str = <<>> THEN <<cur>>
  ELSE IF Head(str) = " "
    THEN IF Len(str) >= 2 /\ str[2] = " " THEN SplitSpaces(Tail(str), cur)
         ELSE <<cur>> \o SplitSpaces(Tail(str), <<>>)
  ELSE SplitSpaces(Tail(str), Append(cur, Head(str)))

\* .replace(/[$()+.?^{|}]/g, "\\$&")
EscapeSpecial(c) ==
  IF c \in {"$", "(", ")", "+", ".", "?", "^", "{", "|", "}"} THEN <<"\\", c>>
  ELSE <<c>>
\* .replace(/\*/g, ".*?")
StarToLazy(c) == IF c = "*" THEN <<".", "*", "?">> ELSE <<c>>
\* .replace(/\//g, "\\/")
EscapeSlash(c) == IF c = "/" THEN <<"\\", "/">> ELSE <<c>>

RECURSIVE ParamsToSegment(_)
\* .replace(/\[([^\]]+)\]/g, "[^/]+")
ParamsToSegment(str) ==
  IF str = <<>> THEN <<>>
  ELSE
    LET closes == {j \in 3..Len(str) : str[j] = "]"} IN
    IF Head(str) = "[" /\ Len(str) >= 2 /\ str[2] # "]" /\ closes # {}
      THEN LET j == CHOOSE k \in closes : \A m \in closes : k <= m
           IN  <<"[", "^", "/", "]", "+">> \o ParamsToSegment(SubSeq(str, j + 1, Len(str)))
      ELSE <<Head(str)>> \o ParamsToSegment(Tail(str))

\* The source of new RegExp(`^${regexPattern}$`, "i") for the path part of a
\* rule.
RegexSource(path) ==
  <<"^">>
  \o LET escaped == Flatten([i \in 1..Len(path) |-> EscapeSpecial(path[i])])
         starred == Flatten([i \in 1..Len(escaped) |-> StarToLazy(escaped[i])])
         params == ParamsToSegment(starred)
     IN  Flatten([i \in 1..Len(params) |-> EscapeSlash(params[i])])
  \o <<"$">>

\* The rule compiled from one entry [key, config] of the routes object;
\* invalid stands for the thrown "Invalid route pattern".
CompileOne(entry) ==
  LET parts == IF \E i \in 1..Len(entry.key) : entry.key[i] = " "
                 THEN SplitSpaces(entry.key, <<>>)
                 ELSE << <<"*">>, entry.key >>
      path == IF Len(parts) >= 2 THEN parts[2] ELSE <<>>
  IN  IF path = <<>>
        THEN [invalid |-> TRUE, verb |-> <<>>, source |-> <<>>, config |-> entry.config]
        ELSE [invalid |-> FALSE, verb |-> toUpperCase(parts[1]),
              source |-> RegexSource(path), config |-> entry.config]

\* compileRoutePatterns(routes): the entries in insertion order.
compileRoutePatterns(routes) == [i \in 1..Len(routes) |-> CompileOne(routes[i])]

RECURSIVE RegexTokens(_)
\* The source between ^ and $ read as a regular expression: an escaped
\* character, .*? (any characters), [^\/]+ (a run of non-slashes) or a
\* character.
RegexTokens(src) ==
  IF src = <<>> THEN <<>>
  ELSE IF Head(src) = "\\" /\ Len(src) >= 2
    THEN <<[t |-> "lit", c |-> src[2]]>> \o RegexTokens(SubSeq(src, 3, Len(src)))
  ELSE IF Len(src) >= 3 /\ SubSeq(src, 1, 3) = <<".", "*", "?">>
    THEN <<[t |-> "any", c |-> ""]>> \o RegexTokens(SubSeq(src, 4, Len(src)))
  ELSE IF Len(src) >= 6 /\ SubSeq(src, 1, 6) = <<"[", "^", "\\", "/", "]", "+">>
    THEN <<[t |-> "seg", c |-> ""]>> \o RegexTokens(SubSeq(src, 7, Len(src)))
  ELSE <<[t |-> "lit", c |-> Head(src)]>> \o RegexTokens(Tail(src))

RECURSIVE RegexMatch(_, _)
\* The tokens match the whole of str (flag i: letters compare in one case).
RegexMatch(toks, str) ==
  IF toks = <<>> THEN str = <<>>
  ELSE
    LET k == Head(toks) IN
    CASE k.t = "lit" ->
           /\ str # <<>>
           /\ ToUpperChar(Head(str)) = ToUpperChar(k.c)
           /\ RegexMatch(Tail(toks), Tail(str))
      [] k.t = "any" ->
           \E n \in 0..Len(str) : RegexMatch(Tail(toks), SubSeq(str, n + 1, Len(str)))
      [] k.t = "seg" ->
           \E n \in 1..Len(str) :
             /\ \A i \in 1..n : str[i] # "/"
             /\ RegexMatch(Tail(toks), SubSeq(str, n + 1, Len(str)))

\* pattern.test(path)
RegexTest(source, path) ==
  RegexMatch(RegexTokens(SubSeq(source, 2, Len(source) - 1)), path)

\* .split(/[?#]/)[0]
BeforeQuery(path) ==
  LET cut == {i \in 1..Len(path) : path[i] \in {"?", "#"}} IN
  IF cut = {} THEN path
  ELSE SubSeq(path, 1, (CHOOSE i \in cut : \A m \in cut : i <= m) - 1)
\* .replace(/\\/g, "/")
BackslashToSlash(c) == IF c = "\\" THEN <<"/">> ELSE <<c>>
RECURSIVE CollapseSlashes(_)
CollapseSlashesMut(path) == path
\* .replace(/\/+/g, "/")
CollapseSlashes(path) ==
  IF Len(path) < 2 THEN path
  ELSE IF path[1] = "/" /\ path[2] = "/" THEN CollapseSlashes(Tail(path))
  ELSE <<Head(path)>> \o CollapseSlashes(Tail(path))
\* .replace(/(.+?)\/+$/, "$1")
StripTrailingSlashes(path) ==
  LET keep == {n \in 1..(Len(path) - 1) : \A i \in (n + 1)..Len(path) : path[i] = "/"} IN
  IF keep = {} THEN path
  ELSE SubSeq(path, 1, CHOOSE n \in keep : \A m \in keep : n <= m)
\* normalizedPath of findMatchingRoute
NormalizePath(path) ==
  LET cut == BeforeQuery(path) IN
  StripTrailingSlashes(CollapseSlashes(
    Flatten([i \in 1..Len(cut) |-> BackslashToSlash(cut[i])])))

NoMatch == [invalid |-> TRUE, verb |-> <<>>, source |-> <<>>, config |-> [price |-> <<>>]]
VerbMatchesMut(verb, upperMethod) == TRUE
\* verb === "*" || verb === upperMethod
VerbMatches(verb, upperMethod) == verb = <<"*">> \/ verb = upperMethod
RECURSIVE LongestOf(_, _)
\* matches.reduce((a, b) => b.pattern.source.length > a.pattern.source.length ? b : a)
LongestOf(a, rest) ==
  IF rest = <<>> THEN a
  ELSE LongestOf(IF Len(Head(rest).source) > Len(a.source) THEN Head(rest) ELSE a,
                 Tail(rest))
\* findMatchingRoute(patterns, path, method); NoMatch stands for undefined.
findMatchingRoute(patterns, path, method) ==
  LET normalizedPath == NormalizePath(path)
      upperMethod == toUpperCase(method)
      matches == SelectSeq(patterns,
                   LAMBDA r : /\ RegexTest(r.source, normalizedPath)
                              /\ VerbMatches(r.verb, upperMethod))
  IN  IF matches = <<>> THEN NoMatch ELSE LongestOf(Head(matches), Tail(matches))

(***************************************************************************)
(* findMatchingRoute on its own: one call on a table of one or two rules,  *)
(* a request path and a method.                                            *)
(***************************************************************************)
MaxRules == 2
RouteEntries ==
  { [key |-> <<"/", "a", "/", "*">>, config |-> [price |-> <<"1", ".", "0", "0">>]],
    [key |-> <<"/", "a", "/", "b">>, config |-> [price |-> <<"2", ".", "0", "0">>]],
    [key |-> <<"P", "O", "S", "T", " ", "/", "a", "/", "b">>, config |-> [price |-> <<"3", ".", "0", "0">>]],
    [key |-> <<"*", " ", "/", "a", "/", "b">>, config |-> [price |-> <<"4", ".", "0", "0">>]],
    [key |-> <<"p", "o", "s", "t", " ", "/", "x", "/", "y">>, config |-> [price |-> <<"5", ".", "0", "0">>]],
    [key |-> <<"/", "x", "/", "y">>, config |-> [price |-> <<"6", ".", "0", "0">>]],
    [key |-> <<"/", "a", "/", "[", "i", "d", "]">>, config |-> [price |-> <<"7", ".", "0", "0">>]],
    [key |-> <<"G", "E", "T", " ", "/", "a", "/", "b">>, config |-> [price |-> <<"8", ".", "0", "0">>]] }
RouteTables ==
  { t \in UNION {[1..n -> RouteEntries] : n \in 1..MaxRules} :
      \A i, j \in 1..Len(t) : i # j => t[i] # t[j] }
RequestPaths ==
  { <<"/", "a", "/", "b">>,
    <<"/", "a", "/", "/", "b">>,
    <<"/", "a", "/", "b", "/">>,
    <<"/", "a", "/", "b", "?", "q", "=", "1">>,
    <<"/", "A", "/", "B">>,
    <<"/", "a", "/", "c">>,
    <<"/", "a">>,
    <<"/", "x", "/", "y">>,
    <<"/", "x", "/", "/", "y", "/">>,
    <<"/", "x", "/", "y", "?", "q", "=", "1">>,
    <<"/">>,
    <<"/", "a", "/", "b", "/", "c">> }
RequestMethods ==
  { <<"G", "E", "T">>, <<"p", "o", "s", "t">>, <<"P", "O", "S", "T">>, <<"p", "u", "t">> }
RouteInputs ==
  [fn : {"findMatchingRoute"}, routes : RouteTables, path : RequestPaths,
   method : RequestMethods]

FindMatchingRouteApplied ==
  /\ input.fn = "findMatchingRoute"
  /\ ~output.done
  /\ output' = [done |-> TRUE,
                val |-> findMatchingRoute(compileRoutePatterns(input.routes),
                                          input.path, input.method)]
  /\ UNCHANGED <<input, fetchVars, discVars, gateVars, facVars>>

InitRoutes ==
  /\ req = [matchingRoute |-> NoRoute, header |-> "absent",
            acceptsHtml |-> FALSE, mozilla |-> FALSE]
  /\ gpc = "idle"
  /\ handler = [script |-> <<OpEndEmpty>>, sync |-> 0]
  /\ hpos = 0
  /\ res = FreshResponse
  /\ bufferedCalls = <<>>
  /\ settled = FALSE
  /\ wrapped = FALSE
  /\ facilitatorCalls = <<>>
  /\ verifyOutcome = "none"
  /\ verifyResult = NoVerify
  /\ settleOutcome = "none"
  /\ settleResult = NoSettle
  /\ nextCalls = 0
  /\ feeSponsor = FALSE
  /\ applied = {}
  /\ balance = [a \in {"GA"} |-> 30000000]
  /\ currentLedger = 1
  /\ submissions = <<>>
  /\ replayStore = {}
  /\ call = [c \in Callers |-> IdleCall]
  /\ lastVerify = NotVerified
  /\ wf = IdleFetch
  /\ sent = <<>>
  /\ signed = <<>>
  /\ dstore = <<>>
  /\ now = 1
  /\ touch = NoTouch
  /\ dresult = NoResult
  /\ removed = {}
  /\ input \in RouteInputs
  /\ output = NoOutput

NextRoutes ==
  \/ FindMatchingRouteApplied

SpecRoutes == InitRoutes /\ [][NextRoutes]_vars

(***************************************************************************)
(* The Challenge amount on its own: paymentRequirements built for one      *)
(* route rule (a price and an asset).                                      *)
(***************************************************************************)
MaxWhole == 2
\* "0", "0.00000001" and "-1"
PriceZero == <<48>>
PriceTiny == <<48, 46, 48, 48, 48, 48, 48, 48, 48, 49>>
PriceNegative == <<45, 49>>
\* "a.bc" for a up to MaxWhole, and prices with more or no decimals.
PriceStrings ==
  { NatToText(a) \o <<46, 48 + b, 48 + c>> : a \in 0..MaxWhole, b \in 0..9, c \in 0..9 }
  \cup { <<48, 46, 48, 48, 49>>, <<48, 46, 53>>, <<48, 46, 48, 48, 48, 48, 48, 50, 49>>,
         <<49, 48, 48, 48, 48, 48, 48>>, <<53>>, <<49, 46>>, <<46, 53>>,
         <<97, 98, 99>> }
  \cup { PriceZero, PriceTiny, PriceNegative, <<45, 48, 46, 52, 49>>, <<45, 48>> }
PriceInputs ==
  [ fn : {"paymentRequirements"},
    price : {JStr(t) : t \in PriceStrings} \cup {JNum(10000000), JNum(10000), JNum(0)},
    asset : {"native", "CUSDC"} ]

PaymentRequirementsApplied ==
  /\ input.fn = "paymentRequirements"
  /\ ~output.done
  /\ output' = [done |-> TRUE,
                val |-> PaymentRequirements([price |-> input.price,
                                             asset |-> input.asset])]
  /\ UNCHANGED <<input, fetchVars, discVars, gateVars, facVars>>

InitPrice ==
  /\ req = [matchingRoute |-> NoRoute, header |-> "absent",
            acceptsHtml |-> FALSE, mozilla |-> FALSE]
  /\ gpc = "idle"
  /\ handler = [script |-> <<OpEndEmpty>>, sync |-> 0]
  /\ hpos = 0
  /\ res = FreshResponse
  /\ bufferedCalls = <<>>
  /\ settled = FALSE
  /\ wrapped = FALSE
  /\ facilitatorCalls = <<>>
  /\ verifyOutcome = "none"
  /\ verifyResult = NoVerify
  /\ settleOutcome = "none"
  /\ settleResult = NoSettle
  /\ nextCalls = 0
  /\ feeSponsor = FALSE
  /\ applied = {}
  /\ balance = [a \in {"GA"} |-> 30000000]
  /\ currentLedger = 1
  /\ submissions = <<>>
  /\ replayStore = {}
  /\ call = [c \in Callers |-> IdleCall]
  /\ lastVerify = NotVerified
  /\ wf = IdleFetch
  /\ sent = <<>>
  /\ signed = <<>>
  /\ dstore = <<>>
  /\ now = 1
  /\ touch = NoTouch
  /\ dresult = NoResult
  /\ removed = {}
  /\ input \in PriceInputs
  /\ output = NoOutput

NextPrice ==
  \/ PaymentRequirementsApplied

SpecPrice == InitPrice /\ [][NextPrice]_vars

(***************************************************************************)
(* The X-PAYMENT header on its own: a payload is encoded and decoded.      *)
(***************************************************************************)
MaxLedger == 12345678
\* The payload a signer returns, as the JSON value that is encoded.
SignedPayload(net, xdr, amount, validUntil, nonce) ==
  JObj(<< <<<<120, 52, 48, 50, 86, 101, 114, 115, 105, 111, 110>>, JNum(1)>>,
          <<<<115, 99, 104, 101, 109, 101>>, JStr(<<101, 120, 97, 99, 116>>)>>,
          <<<<110, 101, 116, 119, 111, 114, 107>>, JStr(net)>>,
          <<<<112, 97, 121, 108, 111, 97, 100>>,
            JObj(<< <<<<115, 105, 103, 110, 101, 100, 84, 120, 88, 100, 114>>, JStr(xdr)>>,
                    <<<<115, 111, 117, 114, 99, 101, 65, 99, 99, 111, 117, 110, 116>>, JStr(<<71, 65>>)>>,
                    <<<<97, 109, 111, 117, 110, 116>>, JStr(amount)>>,
                    <<<<100, 101, 115, 116, 105, 110, 97, 116, 105, 111, 110>>, JStr(<<71, 80, 65, 89, 84, 79>>)>>,
                    <<<<97, 115, 115, 101, 116>>, JStr(<<110, 97, 116, 105, 118, 101>>)>>,
                    <<<<118, 97, 108, 105, 100, 85, 110, 116, 105, 108, 76, 101, 100, 103, 101, 114>>, JNum(validUntil)>>,
                    <<<<110, 111, 110, 99, 101>>, JStr(nonce)>> >>)>> >>)

\* Amounts are decimal strings: short, with leading zeros, and longer than
\* any number a double holds exactly.
HeaderAmounts ==
  { <<49, 48, 48, 48, 48, 48, 48, 48>>, <<48, 48, 49, 48>>, <<57, 57, 57, 57, 57, 57, 57, 57, 57, 57, 57, 57, 57, 57, 57, 57, 57, 57, 57, 57>>, <<48, 46, 53>> }
HeaderXdrs == { <<65, 65, 65, 65, 43, 47, 56, 61>>, <<65, 65, 65, 65, 65, 103, 65, 65, 65, 65, 66, 47, 120, 43, 61, 61>> }
HeaderNonces == { <<110, 49>>, <<97, 34, 98>>, <<99, 92>> }
HeaderInputs ==
  [ fn : {"header"},
    payload : { SignedPayload(net, xdr, amount, validUntil, nonce) :
                  net \in {StellarTestnet, StellarMainnet}, xdr \in HeaderXdrs,
                  amount \in HeaderAmounts,
                  validUntil \in {0, MaxLedger},
                  nonce \in HeaderNonces } ]

HeaderRoundTrip ==
  /\ input.fn = "header"
  /\ ~output.done
  /\ LET header == encodePaymentHeader(input.payload) IN
     output' = [done |-> TRUE, header |-> header,
                val |-> decodePaymentHeader(header)]
  /\ UNCHANGED <<input, fetchVars, discVars, gateVars, facVars>>

InitHeader ==
  /\ req = [matchingRoute |-> NoRoute, header |-> "absent",
            acceptsHtml |-> FALSE, mozilla |-> FALSE]
  /\ gpc = "idle"
  /\ handler = [script |-> <<OpEndEmpty>>, sync |-> 0]
  /\ hpos = 0
  /\ res = FreshResponse
  /\ bufferedCalls = <<>>
  /\ settled = FALSE
  /\ wrapped = FALSE
  /\ facilitatorCalls = <<>>
  /\ verifyOutcome = "none"
  /\ verifyResult = NoVerify
  /\ settleOutcome = "none"
  /\ settleResult = NoSettle
  /\ nextCalls = 0
  /\ feeSponsor = FALSE
  /\ applied = {}
  /\ balance = [a \in {"GA"} |-> 30000000]
  /\ currentLedger = 1
  /\ submissions = <<>>
  /\ replayStore = {}
  /\ call = [c \in Callers |-> IdleCall]
  /\ lastVerify = NotVerified
  /\ wf = IdleFetch
  /\ sent = <<>>
  /\ signed = <<>>
  /\ dstore = <<>>
  /\ now = 1
  /\ touch = NoTouch
  /\ dresult = NoResult
  /\ removed = {}
  /\ input \in HeaderInputs
  /\ output = NoOutput

NextHeader ==
  \/ HeaderRoundTrip

SpecHeader == InitHeader /\ [][NextHeader]_vars

(***************************************************************************)
(* wrapFetchWithPayment (x402-stellar-fetch): the function it returns,     *)
(* called up to MaxFetches times.                                          *)
(***************************************************************************)
MaxFetches == 2
DefaultMaxAmount == 10000000
NoPayment == NoRequirement

\* BigInt(str) of a string: digits give their value, the empty string 0,
\* anything else throws a SyntaxError.
BigIntOf(str) ==
  LET value[i \in 0..Len(str)] ==
        IF i = 0 THEN 0 ELSE 10 * value[i - 1] + (str[i] - 48)
  IN  IF \A i \in 1..Len(str) : IsDigit(str[i])
        THEN [throws |-> FALSE, v |-> value[Len(str)]]
        ELSE [throws |-> TRUE, v |-> 0]

\* selectPaymentRequirements(requirements): the first one of scheme "exact"
\* on a Stellar network.
StellarExact(requirements) ==
  {i \in 1..Len(requirements) :
     /\ requirements[i].scheme = "exact"
     /\ requirements[i].network \in {"stellar-testnet", "stellar"}}
selectPaymentRequirements(requirements) ==
  LET filtered == StellarExact(requirements) IN
  IF filtered = {} THEN NoRequirement
  ELSE requirements[CHOOSE i \in filtered : \A j \in filtered : i <= j]
\* A requirementSelector of the caller's: the last entry, whatever it is;
\* it throws for an empty list.
SelectLast(requirements) ==
  IF requirements = <<>> THEN NoRequirement ELSE requirements[Len(requirements)]
requirementSelector(selector, requirements) ==
  IF selector = "default" THEN selectPaymentRequirements(requirements)
  ELSE SelectLast(requirements)

\* requiredAmount > maxAmount
ExceedsMaximumMut(requiredAmount, maxAmount) == requiredAmount > maxAmount + 1
ExceedsMaximum(requiredAmount, maxAmount) == requiredAmount > maxAmount

\* The entries of a 402 body's accepts array; schemaOk is the verdict of
\* PaymentRequirementsSchema.parse on the entry.
AcceptsEntries ==
  [ scheme : {"exact"},
    network : {"stellar-testnet", "base-sepolia"},
    maxAmountRequired : { <<49, 48, 48, 48, 48, 48, 48, 48>>, <<49, 48, 48, 48, 48, 48, 48, 49>>, <<53>>, <<97, 98, 99>> },
    schemaOk : BOOLEAN ]
Bodies ==
  [ hasAccepts : {FALSE}, x402Version : {1}, accepts : {<<>>} ]
  \cup [ hasAccepts : {TRUE}, x402Version : {1, 2},
         accepts : {<<>>} \cup {<<a>> : a \in AcceptsEntries}
                   \cup {<<a, b>> : a \in AcceptsEntries,
                                    b \in {e \in AcceptsEntries : e.schemaOk}} ]

Throw(message) == wf' = [wf EXCEPT !.pc = "thrown", !.error = message]

\* The returned function is called: fetch(input, init)
WrappedFetchCalled(retry) ==
  /\ wf.pc \in {"idle", "returned", "thrown"}
  /\ wf.calls < MaxFetches
  /\ wf' = [wf EXCEPT !.pc = "fetch1", !.retry = retry,
                      !.selected = NoRequirement, !.error = "",
                      !.calls = wf.calls + 1, !.status = 0,
                      !.sent0 = Len(sent), !.signed0 = Len(signed)]
  /\ sent' = Append(sent, [xPayment |-> NoPayment, retry |-> retry])
  /\ UNCHANGED <<signed, pureVars, discVars, gateVars, facVars>>

\* The first response is not a 402: it is returned as it is.
ResponseNot402 ==
  /\ wf.pc = "fetch1"
  /\ wf' = [wf EXCEPT !.pc = "returned", !.status = 200]
  /\ UNCHANGED <<sent, signed, pureVars, discVars, gateVars, facVars>>

\* The first response is a 402: response.json() is awaited.
Response402 ==
  /\ wf.pc = "fetch1"
  /\ wf' = [wf EXCEPT !.pc = "json"]
  /\ UNCHANGED <<sent, signed, pureVars, discVars, gateVars, facVars>>

\* response.json() rejects.
JsonFails ==
  /\ wf.pc = "json"
  /\ Throw("Failed to parse 402 response body")
  /\ UNCHANGED <<sent, signed, pureVars, discVars, gateVars, facVars>>

\* response.json() resolves with body: the requirements are parsed, one is
\* selected, its amount and the retry header are checked, and
\* createPaymentHeader is called with the signer.
JsonReturns(body) ==
  /\ wf.pc = "json"
  /\ IF ~body.hasAccepts
       THEN Throw("402 response missing 'accepts' array")
     ELSE IF \E i \in 1..Len(body.accepts) : ~body.accepts[i].schemaOk
       THEN Throw("ZodError")
     ELSE LET selectedRequirement == requirementSelector(wf.selector, body.accepts)
              requiredAmount == BigIntOf(selectedRequirement.maxAmountRequired)
          IN
          IF selectedRequirement = NoRequirement
            THEN Throw("No Stellar payment requirements found in 402 response")
          ELSE IF requiredAmount.throws
            THEN wf' = [wf EXCEPT !.pc = "thrown", !.error = "SyntaxError",
                                 !.selected = selectedRequirement]
          ELSE IF ExceedsMaximum(requiredAmount.v, wf.maxAmount)
            THEN wf' = [wf EXCEPT !.pc = "thrown",
                                 !.error = "Payment amount exceeds maximum allowed",
                                 !.selected = selectedRequirement]
          ELSE IF wf.retry
            THEN wf' = [wf EXCEPT !.pc = "thrown",
                                 !.error = "Payment already attempted - possible infinite loop",
                                 !.selected = selectedRequirement]
          ELSE IF body.x402Version # 1
            THEN wf' = [wf EXCEPT !.pc = "thrown",
                                 !.error = "Unsupported x402Version",
                                 !.selected = selectedRequirement]
          ELSE wf' = [wf EXCEPT !.pc = "create", !.selected = selectedRequirement]
  /\ UNCHANGED <<sent, signed, pureVars, discVars, gateVars, facVars>>

\* createPaymentHeader resolves: the payload for the selected requirement
\* has been signed, and the request is sent again with X-PAYMENT.
PaymentHeaderCreated ==
  /\ wf.pc = "create"
  /\ signed' = Append(signed, wf.selected)
  /\ sent' = Append(sent, [xPayment |-> wf.selected, retry |-> TRUE])
  /\ wf' = [wf EXCEPT !.pc = "fetch2"]
  /\ UNCHANGED <<pureVars, discVars, gateVars, facVars>>

\* createPaymentHeader rejects (Horizon cannot be reached, the signer
\* refuses).
PaymentHeaderFails ==
  /\ wf.pc = "create"
  /\ Throw("createPaymentHeader failed")
  /\ UNCHANGED <<sent, signed, pureVars, discVars, gateVars, facVars>>

RetryReturnsMut(status) ==
  /\ wf.pc = "fetch2"
  /\ wf' = [wf EXCEPT !.pc = IF status = 402 THEN "json" ELSE "returned",
                      !.status = status]
  /\ UNCHANGED <<sent, signed, pureVars, discVars, gateVars, facVars>>
\* The second response, whatever its status, is returned.
RetryReturns(status) ==
  /\ wf.pc = "fetch2"
  /\ wf' = [wf EXCEPT !.pc = "returned", !.status = status]
  /\ UNCHANGED <<sent, signed, pureVars, discVars, gateVars, facVars>>

\* wrapFetchWithPayment(fetch, signer, options) has returned its function.
InitFetch ==
  /\ req = [matchingRoute |-> NoRoute, header |-> "absent",
            acceptsHtml |-> FALSE, mozilla |-> FALSE]
  /\ gpc = "idle"
  /\ handler = [script |-> <<OpEndEmpty>>, sync |-> 0]
  /\ hpos = 0
  /\ res = FreshResponse
  /\ bufferedCalls = <<>>
  /\ settled = FALSE
  /\ wrapped = FALSE
  /\ facilitatorCalls = <<>>
  /\ verifyOutcome = "none"
  /\ verifyResult = NoVerify
  /\ settleOutcome = "none"
  /\ settleResult = NoSettle
  /\ nextCalls = 0
  /\ feeSponsor = FALSE
  /\ applied = {}
  /\ balance = [a \in {"GA"} |-> 30000000]
  /\ currentLedger = 1
  /\ submissions = <<>>
  /\ replayStore = {}
  /\ call = [c \in Callers |-> IdleCall]
  /\ lastVerify = NotVerified
  /\ sent = <<>>
  /\ signed = <<>>
  /\ dstore = <<>>
  /\ now = 1
  /\ touch = NoTouch
  /\ dresult = NoResult
  /\ removed = {}
  /\ input = NoInput
  /\ output = NoOutput
  /\ wf \in { [IdleFetch EXCEPT !.maxAmount = m, !.selector = s] :
               m \in {DefaultMaxAmount, 5}, s \in {"default", "custom"} }

NextFetch ==
  \/ \E retry \in BOOLEAN : WrappedFetchCalled(retry)
  \/ ResponseNot402
  \/ Response402
  \/ JsonFails
  \/ \E body \in Bodies : JsonReturns(body)
  \/ PaymentHeaderCreated
  \/ PaymentHeaderFails
  \/ \E status \in {200, 402} : RetryReturns(status)

SpecFetch == InitFetch /\ [][NextFetch]_vars

\* A promise the wrapper awaits (fetch, response.json, createPaymentHeader)
\* settles.
AwaitSettles ==
  \/ ResponseNot402
  \/ Response402
  \/ JsonFails
  \/ \E body \in Bodies : JsonReturns(body)
  \/ PaymentHeaderCreated
  \/ PaymentHeaderFails
  \/ \E status \in {200, 402} : RetryReturns(status)

\* The wrapper when every awaited promise settles.
SpecFetchLive == SpecFetch /\ WF_vars(AwaitSettles)

(***************************************************************************)
(* signPaymentHeader (x402-stellar-client): one call with a signer on an   *)
(* unsigned payload.                                                       *)
(***************************************************************************)
\* The unsigned payloads: a native one carries unsignedTxXdr, a contract
\* token one carries transaction.
SignInputs ==
  [ fn : {"signPaymentHeader"},
    sac : BOOLEAN,
    network : {"stellar-testnet", "stellar", "base-sepolia"},
    xdr : Xdrs,
    signer : {"keypair", "freighter", "unknown"} ]

\* tx.sign(keypair) / the wallet's signature, and tx.toXDR()
SignedXdr(xdr, by) == [xdr |-> xdr, signedBy |-> by]
NoSignedPayload == [network |-> "none"]
Threw(message) == [done |-> TRUE, threw |-> TRUE, error |-> message,
                   val |-> NoSignedPayload]
\* The PaymentPayload that signNativeXlmPayload and signSacTokenPayload
\* return.
SignedPaymentPayload(unsigned, signedTxXdr) ==
  [done |-> TRUE, threw |-> FALSE, error |-> "",
   val |-> [x402Version |-> 1, scheme |-> "exact", network |-> unsigned.network,
            sac |-> unsigned.sac, signedTxXdr |-> signedTxXdr]]

\* signWithKeypair(unsignedTxXdr, signer, networkPassphrase)
signWithKeypair(unsigned) ==
  IF ~ParsesAsXdr(unsigned.xdr) THEN Threw("XDR Read Error")
  ELSE IF fromXDR(unsigned.xdr).kind = "feeBump"
    THEN Threw("Cannot sign fee-bump transactions with client signer")
  ELSE SignedPaymentPayload(unsigned, SignedXdr(unsigned.xdr, "keypair"))

\* signPaymentHeader up to the call of the signer; "await" stands for the
\* pending signTransaction of the wallet.
signPaymentHeader(unsigned) ==
  IF unsigned.network \notin SupportedNetworks THEN Threw("Unsupported network")
  ELSE IF unsigned.signer = "keypair" THEN signWithKeypair(unsigned)
  ELSE IF unsigned.signer = "freighter" THEN [done |-> FALSE, await |-> "signTransaction"]
  ELSE Threw("Unknown signer type")

\* signPaymentHeader returns or throws without waiting for a wallet.
SignPaymentHeaderSettled ==
  /\ input.fn = "signPaymentHeader"
  /\ ~output.done
  /\ signPaymentHeader(input).done
  /\ output' = signPaymentHeader(input)
  /\ UNCHANGED <<input, fetchVars, discVars, gateVars, facVars>>

\* signWithFreighter: the wallet signs the envelope it was handed.
FreighterSigned ==
  /\ input.fn = "signPaymentHeader"
  /\ ~output.done
  /\ ~signPaymentHeader(input).done
  /\ ParsesAsXdr(input.xdr)
  /\ output' = SignedPaymentPayload(input, SignedXdr(input.xdr, "freighter"))
  /\ UNCHANGED <<input, fetchVars, discVars, gateVars, facVars>>

\* signWithFreighter: result.error is set (the user declines, the envelope
\* cannot be read).
FreighterRefused ==
  /\ input.fn = "signPaymentHeader"
  /\ ~output.done
  /\ ~signPaymentHeader(input).done
  /\ output' = Threw("Freighter signing failed")
  /\ UNCHANGED <<input, fetchVars, discVars, gateVars, facVars>>

InitSign ==
  /\ req = [matchingRoute |-> NoRoute, header |-> "absent",
            acceptsHtml |-> FALSE, mozilla |-> FALSE]
  /\ gpc = "idle"
  /\ handler = [script |-> <<OpEndEmpty>>, sync |-> 0]
  /\ hpos = 0
  /\ res = FreshResponse
  /\ bufferedCalls = <<>>
  /\ settled = FALSE
  /\ wrapped = FALSE
  /\ facilitatorCalls = <<>>
  /\ verifyOutcome = "none"
  /\ verifyResult = NoVerify
  /\ settleOutcome = "none"
  /\ settleResult = NoSettle
  /\ nextCalls = 0
  /\ feeSponsor = FALSE
  /\ applied = {}
  /\ balance = [a \in {"GA"} |-> 30000000]
  /\ currentLedger = 1
  /\ submissions = <<>>
  /\ replayStore = {}
  /\ call = [c \in Callers |-> IdleCall]
  /\ lastVerify = NotVerified
  /\ wf = IdleFetch
  /\ sent = <<>>
  /\ signed = <<>>
  /\ dstore = <<>>
  /\ now = 1
  /\ touch = NoTouch
  /\ dresult = NoResult
  /\ removed = {}
  /\ input \in SignInputs
  /\ output = NoOutput

NextSign ==
  \/ SignPaymentHeaderSettled
  \/ FreighterSigned
  \/ FreighterRefused

SpecSign == InitSign /\ [][NextSign]_vars

(***************************************************************************)
(* The discovery store (facilitator/src/storage/discovery-store.ts) and    *)
(* its routes.                                                             *)
(***************************************************************************)
DEFAULT_LIMIT == 20
MAX_LIMIT == 100
NoEntry == [resource |-> "none", type |-> "none", lastUpdated |-> 0]
\* A request parameter: <<>> when it is not given, <<v>> when it is v.
NoParam == <<>>
Param(v) == <<v>>
NoRequest == [type |-> NoParam, limit |-> NoParam, offset |-> NoParam]

\* memoryStore.set(key, value) / hSet: the value of an existing key is
\* replaced where it stands, a new key is added at the end.
StoreSet(store, entry) ==
  IF \E i \in 1..Len(store) : store[i].resource = entry.resource
    THEN [i \in 1..Len(store) |->
            IF store[i].resource = entry.resource THEN entry ELSE store[i]]
    ELSE Append(store, entry)
\* memoryStore.delete(key) / hDel
StoreDelete(store, key) ==
  LET keep == {i \in 1..Len(store) : store[i].resource # key}
      at(k) == CHOOSE i \in keep : Cardinality({m \in keep : m < i}) = k - 1
  IN  [k \in 1..Cardinality(keep) |-> store[at(k)]]
StoreHas(store, key) == \E i \in 1..Len(store) : store[i].resource = key

\* getResource(resourceUrl): the entry, or null (NoEntry)
getResource(store, key) ==
  IF StoreHas(store, key)
    THEN store[CHOOSE i \in 1..Len(store) : store[i].resource = key]
    ELSE NoEntry

\* filteredResources.sort((a, b) => b.lastUpdated - a.lastUpdated): a stable
\* sort, newest first.
SortNewestFirst(entries) ==
  LET rank(i) ==
        Cardinality({j \in 1..Len(entries) :
                       \/ entries[j].lastUpdated > entries[i].lastUpdated
                       \/ /\ entries[j].lastUpdated = entries[i].lastUpdated
                          /\ j < i}) + 1
  IN  [k \in 1..Len(entries) |-> entries[CHOOSE i \in 1..Len(entries) : rank(i) = k]]

\* Array.prototype.slice(start, end): a negative index counts from the end.
JsSlice(arr, start, end) ==
  LET len == Len(arr)
      from == IF start < 0 THEN (IF len + start < 0 THEN 0 ELSE len + start)
              ELSE (IF start > len THEN len ELSE start)
      to == IF end < 0 THEN (IF len + end < 0 THEN 0 ELSE len + end)
            ELSE (IF end > len THEN len ELSE end)
  IN  IF to <= from THEN <<>> ELSE SubSeq(arr, from + 1, to)

Matching(entries, typeFilter) ==
  LET keep == {i \in 1..Len(entries) : entries[i].type = typeFilter}
      at(k) == CHOOSE i \in keep : Cardinality({m \in keep : m < i}) = k - 1
  IN  [k \in 1..Cardinality(keep) |-> entries[at(k)]]

\* listResources(request)
listResources(allResources, request) ==
  LET given == IF request.limit = NoParam \/ request.limit = Param(0)
                 THEN DEFAULT_LIMIT
               ELSE request.limit[1]
      limit == IF given < MAX_LIMIT THEN given ELSE MAX_LIMIT
      offset == IF request.offset = NoParam THEN 0 ELSE request.offset[1]
      filteredResources ==
        IF request.type = NoParam \/ request.type = Param("") THEN allResources
        ELSE Matching(allResources, request.type[1])
      sorted == SortNewestFirst(filteredResources)
  IN  [ x402Version |-> 1,
        items |-> JsSlice(sorted, offset, offset + limit),
        pagination |-> [limit |-> limit, offset |-> offset,
                        total |-> Len(filteredResources)] ]

\* ---- the store shared by the facilitator's workers ----
MaxNow == 3
Resources == {"r1", "r2"}

\* POST /discovery/resources with a body naming r; given is the body's
\* lastUpdated (0 when the body has none).
RegisterResource(r, given) ==
  /\ LET lastUpdated == IF given = 0 THEN now ELSE given IN
     dstore' = StoreSet(dstore, [resource |-> r, type |-> "http",
                                 lastUpdated |-> lastUpdated])
  /\ dresult' = [op |-> "register", resource |-> r, at |-> now,
                 existed |-> StoreHas(dstore, r)]
  /\ removed' = removed \ {r}
  /\ UNCHANGED <<now, touch, pureVars, fetchVars, gateVars, facVars>>

\* DELETE /discovery/resources: unregisterResource(r) completes.
UnregisterResource(r) ==
  /\ dstore' = StoreDelete(dstore, r)
  /\ dresult' = [op |-> "unregister", resource |-> r, val |-> StoreHas(dstore, r)]
  /\ removed' = removed \cup {r}
  /\ UNCHANGED <<now, touch, pureVars, fetchVars, gateVars, facVars>>

\* touchResource(r): getResource has resolved; without an entry the touch
\* is over.
TouchBegin(r) ==
  /\ touch.pc = "idle"
  /\ touch' = IF StoreHas(dstore, r)
                THEN [pc |-> "got", resource |-> getResource(dstore, r)]
                ELSE NoTouch
  /\ dresult' = [op |-> "touch", resource |-> r]
  /\ UNCHANGED <<dstore, now, removed, pureVars, fetchVars, gateVars, facVars>>

\* touchResource: resource.lastUpdated = Date.now(); registerResource(resource)
TouchEnd ==
  /\ touch.pc = "got"
  /\ dstore' = StoreSet(dstore, [touch.resource EXCEPT !.lastUpdated = now])
  /\ touch' = NoTouch
  /\ dresult' = [op |-> "touched", resource |-> touch.resource.resource]
  /\ UNCHANGED <<now, removed, pureVars, fetchVars, gateVars, facVars>>

\* getResource(r) is answered.
GetResource(r) ==
  /\ dresult' = [op |-> "get", resource |-> r, val |-> getResource(dstore, r)]
  /\ UNCHANGED <<dstore, now, touch, removed, pureVars, fetchVars, gateVars, facVars>>

\* GET /discovery/resources is answered.
ListResources(request) ==
  /\ dresult' = [op |-> "list", val |-> listResources(dstore, request)]
  /\ UNCHANGED <<dstore, now, touch, removed, pureVars, fetchVars, gateVars, facVars>>

\* Time passes.
Tick ==
  /\ now < MaxNow
  /\ now' = now + 1
  /\ UNCHANGED <<dstore, touch, dresult, removed, pureVars, fetchVars, gateVars, facVars>>

InitDiscovery ==
  /\ req = [matchingRoute |-> NoRoute, header |-> "absent",
            acceptsHtml |-> FALSE, mozilla |-> FALSE]
  /\ gpc = "idle"
  /\ handler = [script |-> <<OpEndEmpty>>, sync |-> 0]
  /\ hpos = 0
  /\ res = FreshResponse
  /\ bufferedCalls = <<>>
  /\ settled = FALSE
  /\ wrapped = FALSE
  /\ facilitatorCalls = <<>>
  /\ verifyOutcome = "none"
  /\ verifyResult = NoVerify
  /\ settleOutcome = "none"
  /\ settleResult = NoSettle
  /\ nextCalls = 0
  /\ feeSponsor = FALSE
  /\ applied = {}
  /\ balance = [a \in {"GA"} |-> 30000000]
  /\ currentLedger = 1
  /\ submissions = <<>>
  /\ replayStore = {}
  /\ call = [c \in Callers |-> IdleCall]
  /\ lastVerify = NotVerified
  /\ wf = IdleFetch
  /\ sent = <<>>
  /\ signed = <<>>
  /\ dstore = <<>>
  /\ now = 1
  /\ touch = NoTouch
  /\ dresult = NoResult
  /\ removed = {}
  /\ input = NoInput
  /\ output = NoOutput

NextDiscovery ==
  \/ \E r \in Resources, given \in 0..MaxNow : RegisterResource(r, given)
  \/ \E r \in Resources : UnregisterResource(r)
  \/ \E r \in Resources : TouchBegin(r)
  \/ TouchEnd
  \/ \E r \in Resources : GetResource(r)
  \/ \E limit \in {NoParam, Param(1)}, offset \in {NoParam, Param(1)} :
       ListResources([type |-> NoParam, limit |-> limit, offset |-> offset])
  \/ Tick

SpecDiscovery == InitDiscovery /\ [][NextDiscovery]_vars

(***************************************************************************)
(* listResources on its own, on stores large enough for the default and    *)
(* the greatest page.                                                      *)
(***************************************************************************)
\* A store of n entries: every third is of another type, and the times are
\* neither in order nor all different.
StoreOfSize(n) ==
  [i \in 1..n |-> [resource |-> i,
                   type |-> IF i % 3 = 0 THEN "other" ELSE "http",
                   lastUpdated |-> 1 + ((i * 7) % 11)]]
ListInputs ==
  [ fn : {"listResources"},
    size : {0, 3, 25, 105},
    type : {NoParam, Param("http"), Param("other"), Param("zzz")},
    limit : {NoParam, Param(-1), Param(0), Param(1), Param(2), Param(100), Param(150)},
    offset : {NoParam, Param(-1), Param(0), Param(1), Param(30), Param(110)} ]

ListResourcesApplied ==
  /\ input.fn = "listResources"
  /\ ~output.done
  /\ output' = [done |-> TRUE,
                val |-> listResources(StoreOfSize(input.size),
                                      [type |-> input.type, limit |-> input.limit,
                                       offset |-> input.offset])]
  /\ UNCHANGED <<input, fetchVars, discVars, gateVars, facVars>>

InitList ==
  /\ req = [matchingRoute |-> NoRoute, header |-> "absent",
            acceptsHtml |-> FALSE, mozilla |-> FALSE]
  /\ gpc = "idle"
  /\ handler = [script |-> <<OpEndEmpty>>, sync |-> 0]
  /\ hpos = 0
  /\ res = FreshResponse
  /\ bufferedCalls = <<>>
  /\ settled = FALSE
  /\ wrapped = FALSE
  /\ facilitatorCalls = <<>>
  /\ verifyOutcome = "none"
  /\ verifyResult = NoVerify
  /\ settleOutcome = "none"
  /\ settleResult = NoSettle
  /\ nextCalls = 0
  /\ feeSponsor = FALSE
  /\ applied = {}
  /\ balance = [a \in {"GA"} |-> 30000000]
  /\ currentLedger = 1
  /\ submissions = <<>>
  /\ replayStore = {}
  /\ call = [c \in Callers |-> IdleCall]
  /\ lastVerify = NotVerified
  /\ wf = IdleFetch
  /\ sent = <<>>
  /\ signed = <<>>
  /\ dstore = <<>>
  /\ now = 1
  /\ touch = NoTouch
  /\ dresult = NoResult
  /\ removed = {}
  /\ input \in ListInputs
  /\ output = NoOutput

NextList ==
  \/ ListResourcesApplied

SpecList == InitList /\ [][NextList]_vars

(***************************************************************************)
(* createPaymentPayload (x402-stellar-client): preparePaymentHeader builds *)
(* the unsigned payload for a Challenge, signPaymentHeader signs it.  One  *)
(* call on options drawn from BuildInputs; the signer signs.               *)
(***************************************************************************)
\* The options: the signer and its account, the Challenge, the caller's
\* timeout override and the latest ledger Horizon reports.
BuildInputs ==
  [ fn : {"createPaymentPayload"},
    signer : {"keypair", "freighter"},
    account : {"GA", "GB"},
    asset : {"native", "CUSDC"},
    maxAmountRequired : {"10000000", "500000"},
    payTo : {PayTo, "GOTHER"},
    network : {"stellar-testnet", "stellar", "base-sepolia"},
    maxTimeoutSeconds : {NoParam, Param(0), Param(7), Param(300)},
    timeoutSeconds : {NoParam, Param(0), Param(12)},
    ledger : {100, 2000} ]

\* x || fallback for an optional number
OrElse(x, fallback) == IF x = NoParam \/ x[1] = 0 THEN fallback ELSE x[1]
\* Math.ceil(timeout / 5)
CeilDiv5(timeout) == (timeout + 4) \div 5

\* prepareNativeXlmPayment(options, networkConfig)
prepareNativeXlmPayment(o) ==
  LET timeout == OrElse(o.timeoutSeconds, OrElse(o.maxTimeoutSeconds, 300)) IN
  [ x402Version |-> 1, scheme |-> "exact", network |-> o.network, sac |-> FALSE,
    xdr |-> Tx("built", o.account, o.network,
               <<PaymentOp(o.payTo, o.maxAmountRequired, "native")>>),
    sourceAccount |-> o.account,
    amount |-> o.maxAmountRequired,
    destination |-> o.payTo,
    asset |-> o.asset,
    validUntilLedger |-> o.ledger + CeilDiv5(timeout) ]

\* prepareSacTokenPayment(options, networkConfig): the payload holds the
\* built transaction only.
prepareSacTokenPayment(o) ==
  [ x402Version |-> 1, scheme |-> "exact", network |-> o.network, sac |-> TRUE,
    xdr |-> Tx("built", o.account, o.network,
               <<TransferOp(o.asset, o.account, o.payTo, o.maxAmountRequired)>>) ]

\* preparePaymentHeader(options); the network is known here.
preparePaymentHeader(o) ==
  IF o.asset = "native" THEN prepareNativeXlmPayment(o)
  ELSE prepareSacTokenPayment(o)

\* signNativeXlmPayload(unsignedPayload, signer, networkConfig)
signNativeXlmPayload(u, signer) ==
  [ x402Version |-> u.x402Version, scheme |-> u.scheme, network |-> u.network,
    payload |-> [ signedTxXdr |-> SignedXdr(u.xdr, signer),
                  sourceAccount |-> u.sourceAccount,
                  amount |-> u.amount,
                  destination |-> u.destination,
                  asset |-> u.asset,
                  validUntilLedger |-> u.validUntilLedger ] ]

\* signSacTokenPayload(unsignedPayload, signer, networkConfig)
signSacTokenPayload(u, signer) ==
  [ x402Version |-> u.x402Version, scheme |-> u.scheme, network |-> u.network,
    payload |-> [ signedTxXdr |-> SignedXdr(u.xdr, signer),
                  sourceAccount |-> u.xdr.source,
                  amount |-> "0",
                  destination |-> "",
                  asset |-> "",
                  validUntilLedger |-> 0 ] ]

\* createPaymentPayload(options)
createPaymentPayload(o) ==
  IF o.network \notin SupportedNetworks THEN Threw("Unsupported network")
  ELSE LET u == preparePaymentHeader(o) IN
       [done |-> TRUE, threw |-> FALSE, error |-> "",
        val |-> IF u.sac THEN signSacTokenPayload(u, o.signer)
                ELSE signNativeXlmPayload(u, o.signer)]

CreatePaymentPayloadApplied ==
  /\ input.fn = "createPaymentPayload"
  /\ ~output.done
  /\ output' = createPaymentPayload(input)
  /\ UNCHANGED <<input, fetchVars, discVars, gateVars, facVars>>

InitBuild ==
  /\ req = [matchingRoute |-> NoRoute, header |-> "absent",
            acceptsHtml |-> FALSE, mozilla |-> FALSE]
  /\ gpc = "idle"
  /\ handler = [script |-> <<OpEndEmpty>>, sync |-> 0]
  /\ hpos = 0
  /\ res = FreshResponse
  /\ bufferedCalls = <<>>
  /\ settled = FALSE
  /\ wrapped = FALSE
  /\ facilitatorCalls = <<>>
  /\ verifyOutcome = "none"
  /\ verifyResult = NoVerify
  /\ settleOutcome = "none"
  /\ settleResult = NoSettle
  /\ nextCalls = 0
  /\ feeSponsor = FALSE
  /\ applied = {}
  /\ balance = [a \in {"GA"} |-> 30000000]
  /\ currentLedger = 1
  /\ submissions = <<>>
  /\ replayStore = {}
  /\ call = [c \in Callers |-> IdleCall]
  /\ lastVerify = NotVerified
  /\ wf = IdleFetch
  /\ sent = <<>>
  /\ signed = <<>>
  /\ dstore = <<>>
  /\ now = 1
  /\ touch = NoTouch
  /\ dresult = NoResult
  /\ removed = {}
  /\ input \in BuildInputs
  /\ output = NoOutput

NextBuild ==
  \/ CreatePaymentPayloadApplied

SpecBuild == InitBuild /\ [][NextBuild]_vars

(***************************************************************************)
(* settleSacToken after sendTransaction answered PENDING: the wait for     *)
(* confirmation.  sorobanServer.pollTransaction(txHash, {sleepStrategy,    *)
(* attempts}) asks getTransaction up to `attempts` times, sleeping         *)
(* sleepStrategy() milliseconds after each NOT_FOUND answer, and resolves  *)
(* with the first answer that is not NOT_FOUND, or with the last answer    *)
(* when the attempts are used up; it rejects when getTransaction rejects.  *)
(* input is the requirements' maxTimeoutSeconds; output is the call.       *)
(***************************************************************************)
MaxTimeout == 3
DefaultAttempts == 60
SleepMs == 1000

\* attempts: paymentRequirements.maxTimeoutSeconds || 60
PollAttempts(maxTimeoutSeconds) ==
  IF maxTimeoutSeconds # 0 THEN maxTimeoutSeconds ELSE DefaultAttempts

PollResult(success, reason) ==
  [success |-> success, errorReason |-> reason, payer |-> "GA",
   transaction |-> "hash", network |-> "stellar-testnet"]

\* pollTransaction is called
PollCalled ==
  /\ output.pc = "pending"
  /\ output' = [output EXCEPT !.pc = "poll",
                              !.attempts = PollAttempts(input.maxTimeoutSeconds)]
  /\ UNCHANGED <<input, fetchVars, discVars, gateVars, facVars>>

\* getTransaction answers NOT_FOUND: sleep and ask again, or give up with
\* that answer when the attempts are used up
GetTransactionNotFound ==
  /\ output.pc = "poll"
  /\ output' =
       IF output.polls + 1 < output.attempts
         THEN [output EXCEPT !.pc = "sleep", !.polls = output.polls + 1]
         ELSE [output EXCEPT !.pc = "returned", !.polls = output.polls + 1,
                 !.result = PollResult(FALSE,
                              "settle_exact_stellar_transaction_failed")]
  /\ UNCHANGED <<input, fetchVars, discVars, gateVars, facVars>>

\* sleepStrategy: () => 1000
SleepElapsed ==
  /\ output.pc = "sleep"
  /\ output' = [output EXCEPT !.pc = "poll", !.waitedMs = output.waitedMs + SleepMs]
  /\ UNCHANGED <<input, fetchVars, discVars, gateVars, facVars>>

\* getTransaction answers SUCCESS
GetTransactionSuccess ==
  /\ output.pc = "poll"
  /\ output' = [output EXCEPT !.pc = "returned", !.polls = output.polls + 1,
                              !.result = PollResult(TRUE, "")]
  /\ UNCHANGED <<input, fetchVars, discVars, gateVars, facVars>>

\* getTransaction answers FAILED
GetTransactionFailed ==
  /\ output.pc = "poll"
  /\ output' = [output EXCEPT !.pc = "returned", !.polls = output.polls + 1,
                  !.result = PollResult(FALSE,
                               "settle_exact_stellar_transaction_failed")]
  /\ UNCHANGED <<input, fetchVars, discVars, gateVars, facVars>>

\* getTransaction rejects: the catch around the poll answers success
GetTransactionThrows ==
  /\ output.pc = "poll"
  /\ output' = [output EXCEPT !.pc = "returned", !.polls = output.polls + 1,
                              !.result = PollResult(TRUE, "")]
  /\ UNCHANGED <<input, fetchVars, discVars, gateVars, facVars>>

InitPoll ==
  /\ req = [matchingRoute |-> NoRoute, header |-> "absent",
            acceptsHtml |-> FALSE, mozilla |-> FALSE]
  /\ gpc = "idle"
  /\ handler = [script |-> <<OpEndEmpty>>, sync |-> 0]
  /\ hpos = 0
  /\ res = FreshResponse
  /\ bufferedCalls = <<>>
  /\ settled = FALSE
  /\ wrapped = FALSE
  /\ facilitatorCalls = <<>>
  /\ verifyOutcome = "none"
  /\ verifyResult = NoVerify
  /\ settleOutcome = "none"
  /\ settleResult = NoSettle
  /\ nextCalls = 0
  /\ feeSponsor = FALSE
  /\ applied = {}
  /\ balance = [a \in {"GA"} |-> 30000000]
  /\ currentLedger = 1
  /\ submissions = <<>>
  /\ replayStore = {}
  /\ call = [c \in Callers |-> IdleCall]
  /\ lastVerify = NotVerified
  /\ wf = IdleFetch
  /\ sent = <<>>
  /\ signed = <<>>
  /\ dstore = <<>>
  /\ now = 1
  /\ touch = NoTouch
  /\ dresult = NoResult
  /\ removed = {}
  /\ input \in [fn : {"settleSacToken"}, maxTimeoutSeconds : 0..MaxTimeout]
  /\ output = [pc |-> "pending", attempts |-> 0, polls |-> 0, waitedMs |-> 0,
               result |-> PollResult(FALSE, "")]

NextPoll ==
  \/ PollCalled
  \/ GetTransactionNotFound
  \/ SleepElapsed
  \/ GetTransactionSuccess
  \/ GetTransactionFailed
  \/ GetTransactionThrows

SpecPoll == InitPoll /\ [][NextPoll]_vars

\* The poll when every getTransaction request and every sleep ends.
SpecPollLive == SpecPoll /\ WF_vars(NextPoll)

(***************************************************************************)
(* verify(payload, requirements) on its own: one call on arguments drawn   *)
(* from the payloads, requirements, replay stores, balances and ledger     *)
(* sequences below.                                                        *)
(***************************************************************************)
VerifyPayloads ==
  { Payload(net, x, Expiry) :
      net \in {"stellar-testnet", "base-sepolia"},
      x \in {CaseXdr(c) : c \in VerifyCases} \cup {NoXdr, "garbage"} }
AllHashes == { InnerHashOf(CaseTx(c)) : c \in VerifyCases }
VerifyInputs ==
  [ fn : {"verify"},
    payload : VerifyPayloads,
    requirements : FacRequirements,
    store : {{}, AllHashes},
    balance : {[a \in {"GA"} |-> 30000000], [a \in {"GA"} |-> 100]},
    ledger : {Expiry - 1, Expiry, Expiry + 1} ]

VerifyApplied ==
  /\ input.fn = "verify"
  /\ ~output.done
  /\ output' = [done |-> TRUE,
                val |-> Verify(input.payload, input.requirements, input.store,
                               input.balance, input.ledger)]
  /\ UNCHANGED <<input, fetchVars, discVars, gateVars, facVars>>

InitVerify ==
  /\ req = [matchingRoute |-> NoRoute, header |-> "absent",
            acceptsHtml |-> FALSE, mozilla |-> FALSE]
  /\ gpc = "idle"
  /\ handler = [script |-> <<OpEndEmpty>>, sync |-> 0]
  /\ hpos = 0
  /\ res = FreshResponse
  /\ bufferedCalls = <<>>
  /\ settled = FALSE
  /\ wrapped = FALSE
  /\ facilitatorCalls = <<>>
  /\ verifyOutcome = "none"
  /\ verifyResult = NoVerify
  /\ settleOutcome = "none"
  /\ settleResult = NoSettle
  /\ nextCalls = 0
  /\ feeSponsor = FALSE
  /\ applied = {}
  /\ balance = [a \in {"GA"} |-> 30000000]
  /\ currentLedger = 1
  /\ submissions = <<>>
  /\ replayStore = {}
  /\ call = [c \in Callers |-> IdleCall]
  /\ lastVerify = NotVerified
  /\ wf = IdleFetch
  /\ sent = <<>>
  /\ signed = <<>>
  /\ dstore = <<>>
  /\ now = 1
  /\ touch = NoTouch
  /\ dresult = NoResult
  /\ removed = {}
  /\ input \in VerifyInputs
  /\ output = NoOutput

NextVerify ==
  \/ VerifyApplied

SpecVerify == InitVerify /\ [][NextVerify]_vars

(***************************************************************************)
(* Properties of the gate (checked under SpecGate).                        *)
(***************************************************************************)
Protected == req.matchingRoute # NoRoute
SettleCalled == \E i \in 1..Len(facilitatorCalls) : facilitatorCalls[i].op = "settle"
VerifyCalled == \E i \in 1..Len(facilitatorCalls) : facilitatorCalls[i].op = "verify"
HandlerInvoked == hpos >= 1
HandlerBytesOnWire == \E i \in 1..Len(res.body) : res.body[i].src = "handler"
GateReplyOnWire == \E i \in 1..Len(res.body) : res.body[i].src = "gate"
IsPrefix(a, b) == Len(a) <= Len(b) /\ SubSeq(b, 1, Len(a)) = a

\* C1: when settle reports failure the client receives status 402 and no
\* byte written by the handler reaches the underlying response, whenever the
\* handler issues its writes (before, during or after the settle call).
C1_NoBodyOnFailedSettle ==
  settleOutcome = "failure" =>
    /\ res.headersSent
    /\ res.sentStatus = 402
    /\ ~HandlerBytesOnWire

\* C1 witness: settle failed for a handler that ended with a status below
\* 400 and wrote its body after next() had returned.
C1_Witness ==
  /\ settleOutcome = "failure"
  /\ HandlerDone
  /\ HandlerStatus(handler.script) < 400
  /\ handler.sync < Len(handler.script)
  /\ ChunksOf(handler.script) # <<>>

\* C2: within a request verify returns valid before the handler is invoked,
\* the handler has completed successfully before settle is called, and
\* settle has answered before a byte of the handler is released.
C2_StrictOrder ==
  /\ (Protected /\ HandlerInvoked) => verifyOutcome = "valid"
  /\ SettleCalled => (HandlerDone /\ HandlerStatus(handler.script) < 400)
  /\ (SettleCalled /\ HandlerBytesOnWire) => settleOutcome # "none"

\* C5: when the handler ended with a status >= 400, set through the status
\* property or through writeHead, settle is not called, no X-PAYMENT-RESPONSE
\* is sent and the released body is what the handler wrote.
C5_NoSettleOnHandlerError ==
  (verifyOutcome = "valid" /\ HandlerDone /\ HandlerStatus(handler.script) >= 400) =>
    /\ ~SettleCalled
    /\ res.sentXPaymentResponse = NoText
    /\ gpc = "done" => res.body = ChunksOf(handler.script)

\* C7: a response released after a successful settlement carries
\* X-PAYMENT-RESPONSE, which decodes (base64, JSON) to {success: true,
\* transaction, network, payer} of this request's settle result, with the
\* handler's body unchanged; otherwise the header is absent.
C7_PaymentResponseHeader ==
  /\ (settleOutcome = "success" /\ res.headersSent) =>
       LET d == decodePaymentHeader(res.sentXPaymentResponse) IN
       /\ d.ok
       /\ d.val = JObj(<< <<K_success, JBool(TRUE)>>,
                          <<K_transaction, JStr(settleResult.transaction)>>,
                          <<K_network, JStr(settleResult.network)>>,
                          <<K_payer, JStr(settleResult.payer)>> >>)
  /\ settleOutcome = "success" => IsPrefix(res.body, ChunksOf(handler.script))
  /\ (settleOutcome = "success" /\ HandlerDone) =>
       res.body = ChunksOf(handler.script)
  /\ (settleOutcome # "success" /\ res.headersSent) =>
       res.sentXPaymentResponse = NoText

\* C7 witness: a finished response with a body, released after a successful
\* settlement, with the header on the wire.
C7_Witness ==
  /\ settleOutcome = "success"
  /\ res.finished
  /\ res.body # <<>>
  /\ res.sentXPaymentResponse # NoText

\* C8: when verify answers isValid = false the gate replies 402 with the
\* returned invalidReason as error, and neither the handler nor settle is
\* called.
C8_InvalidVerify ==
  verifyOutcome = "invalid" =>
    /\ res.finished
    /\ res.sentStatus = 402
    /\ Len(res.body) = 1
    /\ res.body[1].src = "gate"
    /\ verifyResult.invalidReason # "" =>
         res.body[1].error = verifyResult.invalidReason
    /\ ~HandlerInvoked
    /\ nextCalls = 0
    /\ ~SettleCalled

C8_Witness ==
  /\ verifyOutcome = "invalid"
  /\ verifyResult.invalidReason = "invalid_exact_stellar_payload_amount_mismatch"
  /\ res.finished

\* C9: a request on a protected route without X-PAYMENT gets 402 with the
\* JSON challenge (exactly one Challenge in accepts) or, for a browser, the
\* HTML paywall; verify, settle and the handler are not called.
C9_ChallengeWithoutHeader ==
  (gpc # "idle" /\ Protected /\ req.header = "absent") =>
    /\ res.finished
    /\ res.sentStatus = 402
    /\ Len(res.body) = 1
    /\ IF req.acceptsHtml /\ req.mozilla
         THEN res.body[1].kind = "html"
         ELSE /\ res.body[1].kind = "json"
              /\ res.body[1].x402Version = 1
              /\ res.body[1].error = "Payment Required"
              /\ Len(res.body[1].accepts) = 1
              /\ res.body[1].accepts[1].scheme = "exact"
              /\ res.body[1].accepts[1].payTo = PayTo
              /\ res.body[1].accepts[1].asset = req.matchingRoute.asset
    /\ facilitatorCalls = <<>>
    /\ ~HandlerInvoked
    /\ nextCalls = 0

C9_Witness ==
  /\ gpc = "done"
  /\ Protected
  /\ req.header = "absent"
  /\ ~req.acceptsHtml
  /\ res.finished

\* C10 as stated: a transport failure of verify or of settle gives 500 and
\* not 402, and the gate replies 500 in no other situation.
C10_TransportErrorsAre500 ==
  /\ (verifyOutcome = "threw" \/ settleOutcome = "threw") =>
       (res.headersSent /\ res.sentStatus = 500)
  /\ (GateReplyOnWire /\ res.sentStatus = 500) =>
       (verifyOutcome = "threw" \/ settleOutcome = "threw")

\* C10 amended: a verify call that throws gives 500; a settle call that
\* throws gives 402 with error "Payment settlement failed" and none of the
\* handler's bytes; the gate replies 500 in no other situation.
C10_VerifyThrow500SettleThrow402 ==
  /\ verifyOutcome = "threw" =>
       /\ res.finished
       /\ res.sentStatus = 500
       /\ Len(res.body) = 1
       /\ res.body[1].error = "Payment verification error"
  /\ settleOutcome = "threw" =>
       /\ res.headersSent
       /\ res.sentStatus = 402
       /\ res.body[1].error = "Payment settlement failed"
       /\ ~HandlerBytesOnWire
  /\ (GateReplyOnWire /\ res.sentStatus = 500) => verifyOutcome = "threw"

C10_Witness ==
  /\ settleOutcome = "threw"
  /\ res.finished
  /\ HandlerDone

(***************************************************************************)
(* Properties of the facilitator (checked under SpecFacilitator).          *)
(***************************************************************************)
Begun(c) == call[c].pc # "idle"
SameCall(c, d) ==
  /\ call[c].payload = call[d].payload
  /\ call[c].requirements = call[d].requirements
SubmissionsOf(p) ==
  {i \in 1..Len(submissions) :
     /\ ParsesAsXdr(p.payload.signedTxXdr)
     /\ submissions[i].id = fromXDR(p.payload.signedTxXdr).id}

\* C3: settle calls for the same payload cause one submission of its
\* transaction to the ledger, and their callers receive the same result.
C3_ExactlyOneSubmission ==
  \A c, d \in Callers :
    (c # d /\ Begun(c) /\ Begun(d) /\ SameCall(c, d)) =>
      /\ Cardinality(SubmissionsOf(call[c].payload)) <= 1
      /\ (call[c].pc = "done" /\ call[d].pc = "done") =>
           call[c].result = call[d].result

\* C4: a verify of a payload whose settle has returned success answers
\* isValid = false with reason ...transaction_already_used.
C4_ReplayRejected ==
  lastVerify.payload \in lastVerify.settledBefore =>
    /\ ~lastVerify.result.isValid
    /\ lastVerify.result.invalidReason =
         "invalid_exact_stellar_payload_transaction_already_used"

\* C6: a settle of a payload whose settle has already returned success
\* returns that same result and submits nothing to the ledger.
C6_IdempotentSettle ==
  [][ \A c, d \in Callers :
        ( /\ call[c].pc = "done"
          /\ call[c].result.success
          /\ call[d].pc = "idle"
          /\ call'[d].pc # "idle"
          /\ call'[d].payload = call[c].payload
          /\ call'[d].requirements = call[c].requirements )
        => ( /\ submissions' = submissions
             /\ call'[d].pc = "done"
             /\ call'[d].result = call[c].result ) ]_vars

(***************************************************************************)
(* Properties of verify (checked under SpecVerify).                        *)
(***************************************************************************)
VerifyParsed == ParsesAsXdr(input.payload.payload.signedTxXdr)
VerifyTx == fromXDR(input.payload.payload.signedTxXdr)
VerifyAmount == VerifyTx.ops[1].amount
AmountMismatch == "invalid_exact_stellar_payload_amount_mismatch"
TransactionExpired == "invalid_exact_stellar_payload_transaction_expired"
\* The checks that verify makes before it compares the amount all pass.
ReachesAmountCheck ==
  /\ input.payload.network \in SupportedNetworks
  /\ VerifyParsed
  /\ Len(VerifyTx.ops) = 1
  /\ VerifyTx.ops[1].destination = input.requirements.payTo

IsExactRule(entry, path) ==
  /\ \A i \in 1..Len(entry.key) : entry.key[i] \notin {"*", "[", "]"}
  /\ LET parts == SplitSpaces(entry.key, <<>>) IN
     toUpperCase(parts[Len(parts)]) = toUpperCase(NormalizePath(path))
IsWildcardRule(entry) == \E i \in 1..Len(entry.key) : entry.key[i] \in {"*", "["}
AppliesTo(entry, path, method) ==
  LET r == CompileOne(entry) IN
  /\ RegexTest(r.source, NormalizePath(path))
  /\ (r.verb = <<"*">> \/ r.verb = toUpperCase(method))

\* C13: when an exact-path rule and a wildcard rule both apply to a request,
\* findMatchingRoute selects the exact-path rule (rules /a/* and /a/b, request
\* /a/b: the /a/b rule).
C13_ExactBeatsWildcard ==
  output.done =>
    \A i, j \in 1..Len(input.routes) :
      ( /\ IsExactRule(input.routes[i], input.path)
        /\ \A k \in 1..Len(input.routes[i].key) : input.routes[i].key[k] # " "
        /\ AppliesTo(input.routes[i], input.path, input.method)
        /\ IsWildcardRule(input.routes[j])
        /\ \A k \in 1..Len(input.routes[j].key) : input.routes[j].key[k] # " "
        /\ AppliesTo(input.routes[j], input.path, input.method) )
      => output.val.config = input.routes[i].config

\* The paths that differ from path only by a repeated slash, a trailing
\* slash, or a query or fragment suffix.
PathVariants(path) ==
  { path \o <<"/">>, path \o <<"?", "q", "=", "1">>, path \o <<"#", "f">> }
  \cup { SubSeq(path, 1, i) \o <<"/">> \o SubSeq(path, i + 1, Len(path)) :
           i \in {k \in 1..Len(path) :
                    /\ path[k] = "/"
                    /\ \A m \in 1..k : path[m] \notin {"?", "#"}} }

\* C14: findMatchingRoute returns the same rule for paths that differ only
\* by repeated slashes, a trailing slash or a query/fragment suffix, and
\* normalizing a normalized path changes nothing.
C14_NormalizationInvariant ==
  output.done =>
    /\ \A v \in PathVariants(input.path) :
         findMatchingRoute(compileRoutePatterns(input.routes), v, input.method)
           = output.val
    /\ NormalizePath(NormalizePath(input.path)) = NormalizePath(input.path)
    /\ \A v \in PathVariants(input.path) :
         NormalizePath(v) = NormalizePath(input.path)

\* C14 witness: the path /x//y/ with a rule for /x/y that is selected.
C14_Witness ==
  /\ output.done
  /\ input.path = <<"/", "x", "/", "/", "y", "/">>
  /\ ~output.val.invalid
  /\ output.val.source = RegexSource(<<"/", "x", "/", "y">>)

\* The verb prefix written in a rule's key ("*" when the key has none) and
\* the path pattern written after it.
KeyVerb(entry) ==
  IF \E i \in 1..Len(entry.key) : entry.key[i] = " "
    THEN SplitSpaces(entry.key, <<>>)[1] ELSE <<"*">>
KeyPath(entry) ==
  IF \E i \in 1..Len(entry.key) : entry.key[i] = " "
    THEN SplitSpaces(entry.key, <<>>)[2] ELSE entry.key
\* The rule's path pattern matches the request path.
PathApplies(entry, path) == RegexTest(RegexSource(KeyPath(entry)), NormalizePath(path))
\* The rule's verb admits the method: no prefix, prefix *, or the method
\* itself in any letter case.
VerbAdmits(entry, method) ==
  \/ KeyVerb(entry) = <<"*">>
  \/ toUpperCase(KeyVerb(entry)) = toUpperCase(method)

\* C15: a rule with a verb prefix applies only to requests with that method,
\* compared case-insensitively; a rule without prefix or with prefix *
\* applies to every method; a request whose method no rule for its path
\* admits matches no rule.
C15_VerbFilter ==
  output.done =>
    /\ ~output.val.invalid =>
         \E i \in 1..Len(input.routes) :
           /\ output.val.config = input.routes[i].config
           /\ PathApplies(input.routes[i], input.path)
           /\ VerbAdmits(input.routes[i], input.method)
    /\ output.val.invalid <=>
         ~\E i \in 1..Len(input.routes) :
            /\ PathApplies(input.routes[i], input.path)
            /\ VerbAdmits(input.routes[i], input.method)

\* C15 witness: the only rule for the path is "POST /a/b" and the request is
\* a GET: no rule is matched.
C15_Witness ==
  /\ output.done
  /\ input.routes = <<[key |-> <<"P", "O", "S", "T", " ", "/", "a", "/", "b">>,
                       config |-> [price |-> <<"3", ".", "0", "0">>]]>>
  /\ input.path = <<"/", "a", "/", "b">>
  /\ input.method = <<"G", "E", "T">>
  /\ output.val.invalid

(***************************************************************************)
(* Properties of the price conversion (checked under SpecPrice).           *)
(***************************************************************************)
\* The price is a string of digits with, possibly, a point and more digits.
IsDecimalString(price) ==
  /\ price.t = "str"
  /\ ~parseFloat(price.v).nan
  /\ \A i \in 1..Len(price.v) : IsDigit(price.v[i]) \/ price.v[i] = 46
IsWholeString(price) ==
  /\ price.t = "str"
  /\ price.v # <<>>
  /\ \A i \in 1..Len(price.v) : IsDigit(price.v[i])
RECURSIVE StripZeros(_)
StripZeros(t) == IF Len(t) > 1 /\ Head(t) = 48 THEN StripZeros(Tail(t)) ELSE t
\* The decimal string of floor(d * 10^decimals) for the decimal string d,
\* computed on the digits.
ExactScaled(d, decimals) ==
  LET dots == {i \in 1..Len(d) : d[i] = 46}
      dot == IF dots = {} THEN Len(d) + 1 ELSE CHOOSE i \in dots : TRUE
      whole == SubSeq(d, 1, dot - 1)
      frac == SubSeq(d, dot + 1, Len(d))
      padded == frac \o [i \in 1..decimals |-> 48]
  IN  StripZeros(<<48>> \o whole \o SubSeq(padded, 1, decimals))

\* C16: for a native-asset rule a decimal price string d yields the decimal
\* string of floor(d * 10^7) computed exactly, and an integer price n the
\* decimal string of n.
C16_ExactStroops ==
  (output.done /\ input.asset = "native") =>
    /\ IsDecimalString(input.price) =>
         output.val.maxAmountRequired = ExactScaled(input.price.v, 7)
    /\ input.price.t = "num" =>
         output.val.maxAmountRequired = NatToText(input.price.v)

\* C17: for a contract-asset rule a whole-number price string is the
\* Challenge's maxAmountRequired unchanged, and a decimal price string is
\* scaled by the asset's 7 decimals.
C17_ContractAssetPrice ==
  (output.done /\ input.asset # "native") =>
    /\ IsWholeString(input.price) =>
         output.val.maxAmountRequired = input.price.v
    /\ (IsDecimalString(input.price) /\ ~IsWholeString(input.price)) =>
         output.val.maxAmountRequired = ExactScaled(input.price.v, 7)

(***************************************************************************)
(* Properties of what settle submits (checked under SpecFacilitator).      *)
(***************************************************************************)
\* The caller's signed transaction: what signedTxXdr holds, without the
\* fee-bump envelope the caller may have sent it in.
CallerTransaction(xdr) ==
  LET tx == fromXDR(xdr) IN IF tx.kind = "feeBump" THEN tx.inner ELSE tx
\* The call c has handed an envelope to the network.
HasSubmitted(c) == call[c].pc \in {"submit", "send", "poll"}

Member(x, key) ==
  LET at == {i \in 1..Len(x.v) : x.v[i][1] = key}
  IN  x.v[CHOOSE i \in at : TRUE][2]

\* C19: decodePaymentHeader(encodePaymentHeader(p)) is a value equal to p,
\* member for member, and its amount is the same decimal string as p's.
C19_HeaderRoundTrip ==
  output.done =>
    /\ output.val.ok
    /\ output.val.val = input.payload
    /\ Member(Member(output.val.val, <<112, 97, 121, 108, 111, 97, 100>>), <<97, 109, 111, 117, 110, 116>>)
         = Member(Member(input.payload, <<112, 97, 121, 108, 111, 97, 100>>), <<97, 109, 111, 117, 110, 116>>)
\* A payload whose amount no double holds and whose nonce needs escaping
\* has gone through the header and back.
C19_Witness ==
  /\ output.done
  /\ output.header # <<>>
  /\ Member(Member(input.payload, <<112, 97, 121, 108, 111, 97, 100>>), <<97, 109, 111, 117, 110, 116>>).v = <<57, 57, 57, 57, 57, 57, 57, 57, 57, 57, 57, 57, 57, 57, 57, 57, 57, 57, 57, 57>>
  /\ \E i \in 1..Len(Member(Member(input.payload, <<112, 97, 121, 108, 111, 97, 100>>), <<110, 111, 110, 99, 101>>).v) :
       Member(Member(input.payload, <<112, 97, 121, 108, 111, 97, 100>>), <<110, 111, 110, 99, 101>>).v[i] \in {34, 92}

(***************************************************************************)
(* Properties of the fetch wrapper (checked under SpecFetch).              *)
(***************************************************************************)
\* The requirement r asks for more than the wrapper's maxAmount.
AboveMaximum(r) ==
  /\ r # NoRequirement
  /\ ~BigIntOf(r.maxAmountRequired).throws
  /\ BigIntOf(r.maxAmountRequired).v > wf.maxAmount

\* C20: no payment is created or signed for a requirement whose
\* maxAmountRequired exceeds maxAmount, and no request carries an X-PAYMENT
\* for one; when the selected requirement exceeds it the call has thrown
\* without handing anything to the signer or sending a second request.
C20_NeverPaysAboveMaximum ==
  /\ \A i \in 1..Len(signed) : ~AboveMaximum(signed[i])
  /\ \A i \in 1..Len(sent) : ~AboveMaximum(sent[i].xPayment)
  /\ wf.pc \in {"create", "fetch2"} => ~AboveMaximum(wf.selected)
  /\ AboveMaximum(wf.selected) =>
       /\ wf.pc = "thrown"
       /\ wf.error = "Payment amount exceeds maximum allowed"
       /\ Len(signed) < wf.calls
       /\ sent[Len(sent)].xPayment = NoPayment
\* The wrapper with the default maximum met a requirement of 10000001
\* stroops and threw.
C20_Witness ==
  /\ wf.maxAmount = DefaultMaxAmount
  /\ wf.pc = "thrown"
  /\ AboveMaximum(wf.selected)
  /\ signed = <<>>

(***************************************************************************)
(* Properties of the client's signing (checked under SpecSign).            *)
(***************************************************************************)
\* C21: signPaymentHeader given a fee-bump envelope, with either signer,
\* ends with an error and returns no signed payload.
C21_NeverSignsFeeBump ==
  (/\ output.done
   /\ input.signer \in {"keypair", "freighter"}
   /\ ParsesAsXdr(input.xdr)
   /\ fromXDR(input.xdr).kind = "feeBump") =>
    /\ output.threw
    /\ output.val = NoSignedPayload

(***************************************************************************)
(* Properties of the discovery store (checked under SpecDiscovery).        *)
(***************************************************************************)
EntriesOf(r) == {i \in 1..Len(dstore) : dstore[i].resource = r}

\* C22: after a registration of r that was stored already the store holds exactly one entry for r,
\* its lastUpdated is the time of that registration, and no listed entry is
\* newer than it.
C22_RegisterNewestWins ==
  (dresult.op = "register" /\ dresult.existed) =>
    /\ Cardinality(EntriesOf(dresult.resource)) = 1
    /\ getResource(dstore, dresult.resource).lastUpdated = dresult.at
    /\ listResources(dstore, NoRequest).items[1].lastUpdated
         = getResource(dstore, dresult.resource).lastUpdated

\* C30: a resource whose unregister has completed, with no registration of
\* it issued since, is not returned by getResource and is not among the
\* items of listResources, also while a touchResource is under way.
C30_UnregisteredStaysAbsent ==
  \A r \in removed :
    /\ getResource(dstore, r) = NoEntry
    /\ \A i \in 1..Len(listResources(dstore, NoRequest).items) :
         listResources(dstore, NoRequest).items[i].resource # r

(***************************************************************************)
(* Properties of listResources (checked under SpecList).                   *)
(***************************************************************************)
\* The entries of the input's store that match its type filter.
ListMatching ==
  {i \in 1..input.size :
     input.type = NoParam \/ StoreOfSize(input.size)[i].type = input.type[1]}
\* L: the given limit, 20 when none is given, and never more than 100.
ListL ==
  LET given == IF input.limit = NoParam THEN 20 ELSE input.limit[1]
  IN  IF given > 100 THEN 100 ELSE given
ListOffset == IF input.offset = NoParam THEN 0 ELSE input.offset[1]

\* C23: the items are the entries at the positions offset .. offset+L-1
\* (counted from 0) of the matching entries ordered by lastUpdated
\* non-increasing, and pagination.total is the number of matching entries.
C23_ListIsTheSlice ==
  output.done =>
    LET items == output.val.items
        positions == {p \in 0..(Cardinality(ListMatching) - 1) :
                        ListOffset <= p /\ p < ListOffset + ListL}
    IN  /\ output.val.pagination.total = Cardinality(ListMatching)
        /\ Len(items) = Cardinality(positions)
        /\ \A k \in 1..Len(items) : items[k].resource \in ListMatching
        /\ \A k, m \in 1..Len(items) : k < m => items[k].resource # items[m].resource
        /\ \A k \in 1..(Len(items) - 1) :
             items[k].lastUpdated >= items[k + 1].lastUpdated
        \* what comes before the page is not older, what comes after not newer
        /\ \A k \in 1..Len(items) :
             LET newer == {i \in ListMatching :
                             StoreOfSize(input.size)[i].lastUpdated > items[k].lastUpdated}
                 notOlder == {i \in ListMatching :
                                StoreOfSize(input.size)[i].lastUpdated >= items[k].lastUpdated}
             IN  /\ Cardinality(newer) <= ListOffset + k - 1
                 /\ Cardinality(notOlder) >= ListOffset + k

(***************************************************************************)
(* Properties of the facilitator's settle (checked under SpecFacilitator). *)
(***************************************************************************)
\* verify(payload, requirements) of the call c at the time it begins.
VerifyAtSettle(c) ==
  Verify(call'[c].payload, call'[c].requirements, replayStore, balance,
         currentLedger)

\* C24: a settle whose payload and requirements do not pass verification at
\* that time returns success = false with the verification's reason and
\* submits nothing to the ledger.
C24_SettleVerifiesFirst ==
  [][ \A c \in Callers :
        ( /\ call[c].pc = "idle"
          /\ call'[c].pc # "idle"
          /\ ~VerifyAtSettle(c).isValid )
        => ( /\ submissions' = submissions
             /\ call'[c].pc = "done"
             /\ ~call'[c].result.success
             /\ call'[c].result.errorReason = VerifyAtSettle(c).invalidReason ) ]_vars

\* C25: whenever a caller has been answered success for a transaction hash
\* the replay store holds that hash; a settle answered with a failure leaves
\* the replay store as it was.
C25_RecordBeforeSuccess ==
  /\ [](\A c \in Callers :
          (call[c].pc = "done" /\ call[c].result.success) =>
            call[c].result.transaction \in replayStore)
  /\ [][ \A c \in Callers :
           (call[c].pc # "done" /\ call'[c].pc = "done"
              /\ ~call'[c].result.success) =>
             replayStore' = replayStore ]_vars

\* C26: a settle answered with success = true has had its transaction
\* accepted by the ledger; for a contract asset, a polling that throws or
\* ends without SUCCESS does not give success = true.
C26_SuccessMeansAccepted ==
  \A c \in Callers :
    (call[c].pc = "done" /\ call[c].result.success) =>
      call[c].env.id \in applied

(***************************************************************************)
(* The buffer and its release (checked under SpecGate).                    *)
(***************************************************************************)
IsResponseCall(c) == c.m \in {"writeHead", "write", "end"}

\* The writeHead/write/end calls the handler has issued so far, in order.
HandlerIssued == SelectSeq(SubSeq(handler.script, 1, hpos - 1), IsResponseCall)

\* The gate waits for its release decision: verify accepted the payment,
\* next() was called, and neither branch after it has released or replied.
AwaitingDecision == gpc \in {"awaitNext", "settling"}

\* C27: between a successful verify and the gate's release decision no
\* writeHead, write or end call of the handler reaches the underlying
\* response: every call issued so far is in the buffer, in order, and nothing
\* has been emitted to the client.
C27_BufferedUntilDecision ==
  AwaitingDecision =>
    /\ verifyOutcome = "valid"
    /\ res.calls = <<>>
    /\ ~res.headersSent
    /\ res.body = <<>>
    /\ ~res.finished
    /\ bufferedCalls = HandlerIssued

\* C27 witness: settle is in flight and the handler has issued its writeHead,
\* a write and its end, one of them after next() had returned.
C27_Witness ==
  /\ gpc = "settling"
  /\ HandlerDone
  /\ handler.sync < Len(handler.script)
  /\ Len(bufferedCalls) = 3
  /\ bufferedCalls[1].m = "writeHead"

\* The gate has released the buffered response: after a successful
\* settlement, or after a handler status >= 400.
ReleasedAfterSettle == gpc = "done" /\ settleOutcome = "success"
ReleasedAfterError ==
  gpc = "done" /\ verifyOutcome = "valid" /\ settleOutcome = "none"
Released == ReleasedAfterSettle \/ ReleasedAfterError

\* C28: when the gate releases a buffered response, the calls applied to the
\* underlying response are the calls the handler issued: the release step
\* applies the buffer as it is, and from then on the underlying response has
\* seen each call of the handler once, with its arguments, in the order issued.
C28_ReplayIsWhatHandlerIssued ==
  /\ [](Released => res.calls = HandlerIssued)
  /\ [][(~Released /\ Released') => res'.calls = bufferedCalls]_vars

\* C28 witness: a response released after a successful settlement whose
\* handler issued a writeHead, a write and an end, the end after the release.
C28_Witness ==
  /\ ReleasedAfterSettle
  /\ HandlerDone
  /\ Len(res.calls) = 3
  /\ res.calls[1].m = "writeHead"
  /\ handler.sync = 2

\* C28 witness for the other branch: a handler status >= 400 and a released
\* body of two chunks.
C28_WitnessError ==
  /\ ReleasedAfterError
  /\ HandlerDone
  /\ Len(res.body) = 2

SettleCalls == {i \in 1..Len(facilitatorCalls) : facilitatorCalls[i].op = "settle"}

\* C29: for one request the gate invokes the facilitator's settle at most
\* once (checked under SpecGate and under SpecGateEarlier).
C29_SettleAtMostOnce == Cardinality(SettleCalls) <= 1

(***************************************************************************)
(* Results of settle (checked under SpecFacilitator).                      *)
(***************************************************************************)
\* A ledger or RPC failure ends call c: submitTransaction rejects,
\* sendTransaction refuses or throws, pollTransaction ends without SUCCESS or
\* throws.
AdapterFailure(c) ==
  SubmitRejected(c) \/ SendRefused(c) \/ PollFailed(c) \/ PollThrows(c)

EnumeratedFailure(r) == ~r.success /\ r.errorReason \in StellarErrorReasons

\* C31 without the failures of the adapters: every result with success=false
\* names a reason of the enumeration.
C31_FailedResultsAreEnumerated ==
  \A c \in Callers :
    (call[c].pc = "done" /\ ~call[c].result.success) =>
      call[c].result.errorReason \in StellarErrorReasons

\* C31: for every input and every ledger or RPC failure settle returns a
\* SettleResult with success=false whose errorReason is a member of
\* StellarErrorReasons.
C31_FailuresGiveEnumeratedReason ==
  /\ [](\A c \in Callers :
          (call[c].pc = "done" /\ ~call[c].result.success) =>
            call[c].result.errorReason \in StellarErrorReasons)
  /\ [][\A c \in Callers :
          AdapterFailure(c) => EnumeratedFailure(call'[c].result)]_vars

(***************************************************************************)
(* maxAmountRequired of a Challenge (checked under SpecPrice).             *)
(***************************************************************************)
\* The decimal string of an integer >= 1: digits only, no leading zero.
IsPositiveIntegerString(t) ==
  /\ t # <<>>
  /\ \A i \in 1..Len(t) : IsDigit(t[i])
  /\ t[1] # 48

\* C32: the maxAmountRequired of every Challenge built for a route is the
\* decimal string of an integer >= 1, whatever price the route was given (a
\* price that is not a number builds no Challenge: priceToStroops throws).
C32_MaxAmountAtLeastOne ==
  (output.done /\ output.val.maxAmountRequired # InvalidPrice) =>
    IsPositiveIntegerString(output.val.maxAmountRequired)

\* C32 for the three prices the claim names.
C32_ZeroPrice ==
  (output.done /\ input.price = JStr(PriceZero)) =>
    IsPositiveIntegerString(output.val.maxAmountRequired)
C32_TinyPrice ==
  (output.done /\ input.price = JStr(PriceTiny)) =>
    IsPositiveIntegerString(output.val.maxAmountRequired)
C32_NegativePrice ==
  (output.done /\ input.price = JStr(PriceNegative)) =>
    IsPositiveIntegerString(output.val.maxAmountRequired)

(***************************************************************************)
(* Properties of the client's payloads (checked under SpecBuild).          *)
(***************************************************************************)
Built == output.done /\ ~output.threw

\* C33: the signed Payload built for a Challenge has x402Version 1, scheme
\* exact, the Challenge's network, payTo as destination, maxAmountRequired
\* as amount, its asset, and the signer's account as sourceAccount, for a
\* native and for a contract asset.
C33_PayloadMirrorsChallenge ==
  Built =>
    /\ output.val.x402Version = 1
    /\ output.val.scheme = "exact"
    /\ output.val.network = input.network
    /\ output.val.payload.destination = input.payTo
    /\ output.val.payload.amount = input.maxAmountRequired
    /\ output.val.payload.asset = input.asset
    /\ output.val.payload.sourceAccount = input.account

\* C33 for a native asset alone.
C33_NativePayloadMirrorsChallenge ==
  (Built /\ input.asset = "native") =>
    /\ output.val.x402Version = 1
    /\ output.val.scheme = "exact"
    /\ output.val.network = input.network
    /\ output.val.payload.destination = input.payTo
    /\ output.val.payload.amount = input.maxAmountRequired
    /\ output.val.payload.asset = input.asset
    /\ output.val.payload.sourceAccount = input.account

\* timeout: the caller's override, else maxTimeoutSeconds, else 300
ChosenTimeout ==
  IF input.timeoutSeconds # NoParam THEN input.timeoutSeconds[1]
  ELSE IF input.maxTimeoutSeconds # NoParam THEN input.maxTimeoutSeconds[1]
  ELSE 300

\* ceil(t / 5), as the least n with 5 n >= t
CeilFifth(t) == CHOOSE n \in 0..t : 5 * n >= t /\ (n = 0 \/ 5 * (n - 1) < t)

\* C34: the Payload's validUntilLedger is currentLedger + ceil(timeout / 5),
\* for a native and for a contract asset.
C34_ValidUntilLedger ==
  Built =>
    output.val.payload.validUntilLedger = input.ledger + CeilFifth(ChosenTimeout)

\* C34 for a native asset and a timeout that is given as a positive number
\* or not at all.
C34_NativeValidUntilLedger ==
  (/\ Built
   /\ input.asset = "native"
   /\ input.timeoutSeconds # Param(0)
   /\ (input.timeoutSeconds = NoParam => input.maxTimeoutSeconds # Param(0))) =>
    output.val.payload.validUntilLedger = input.ledger + CeilFifth(ChosenTimeout)

(***************************************************************************)
(* Properties of the gate's header check (checked under SpecGate).         *)
(***************************************************************************)
\* C35 for a header that is not the base64 of a JSON text.
C35_UndecodableHeaderGets402 ==
  (gpc # "idle" /\ Protected /\ req.header = "undecodable") =>
    /\ facilitatorCalls = <<>>
    /\ ~HandlerInvoked
    /\ res.finished
    /\ res.sentStatus = 402
    /\ Len(res.body) = 1
    /\ res.body[1].accepts = <<PaymentRequirements(req.matchingRoute)>>

\* C35: a request on a protected route whose X-PAYMENT cannot be decoded, or
\* decodes to something that is not a Payload, is answered 402 with the
\* Challenge in accepts; the facilitator is not contacted and the handler is
\* not invoked.
C35_MalformedHeaderGets402 ==
  (gpc # "idle" /\ Protected /\ req.header \in {"undecodable", "shapeless"}) =>
    /\ facilitatorCalls = <<>>
    /\ ~HandlerInvoked
    /\ res.finished
    /\ res.sentStatus = 402
    /\ Len(res.body) = 1
    /\ res.body[1].accepts = <<PaymentRequirements(req.matchingRoute)>>

(***************************************************************************)
(* Termination of the fetch wrapper (checked under SpecFetchLive).         *)
(***************************************************************************)
\* The underlying fetch calls and the signed payments of the current call.
FetchesOfCall == Len(sent) - wf.sent0
PaymentsOfCall == Len(signed) - wf.signed0
FetchInProgress == wf.pc \in {"fetch1", "json", "create", "fetch2"}
FetchEnded == wf.pc \in {"returned", "thrown"}

\* C36: each call of the wrapped fetch ends after at most two underlying
\* fetch calls and at most one signed payment; the response to the paid
\* retry, a 402 included, is returned with no further fetch or payment; a
\* call whose init carries X-402-RETRY: true signs nothing.
C36_AtMostOnePaidRetry ==
  /\ [](/\ FetchesOfCall <= 2
        /\ PaymentsOfCall <= 1
        /\ wf.retry => PaymentsOfCall = 0)
  /\ [][wf.pc = "fetch2" =>
          (wf'.pc = "returned" /\ sent' = sent /\ signed' = signed)]_vars
  /\ (FetchInProgress ~> FetchEnded)

\* C36 witness: the paid retry was answered 402 and the call returned it
\* after two fetch calls and one payment.
C36_Witness ==
  /\ wf.pc = "returned"
  /\ wf.status = 402
  /\ FetchesOfCall = 2
  /\ PaymentsOfCall = 1

\* C36 witness for the retry header: a call with X-402-RETRY: true met a
\* payable 402 and threw.
C36_WitnessRetry ==
  /\ wf.retry
  /\ wf.error = "Payment already attempted - possible infinite loop"

(***************************************************************************)
(* Termination of contract-asset settlement (SpecPoll, SpecPollLive).      *)
(***************************************************************************)
\* C37: after the transaction is sent, settle asks for its status at most
\* maxTimeoutSeconds times.
C37_PollsAtMostMaxTimeoutSeconds ==
  input.fn = "settleSacToken" => output.polls <= input.maxTimeoutSeconds

\* C37, for a positive maxTimeoutSeconds: at most maxTimeoutSeconds polls,
\* one second of sleep between two polls.
C37_PositiveTimeoutBoundsPolls ==
  (input.fn = "settleSacToken" /\ input.maxTimeoutSeconds > 0) =>
    /\ output.polls <= input.maxTimeoutSeconds
    /\ output.waitedMs = SleepMs * (IF output.pc = "sleep" THEN output.polls - 1
                                    ELSE IF output.polls = 0 THEN 0
                                    ELSE IF output.pc = "poll" THEN output.polls
                                    ELSE output.polls - 1)

\* C37: the poll ends with a SettleResult (under SpecPollLive).
C37_PollReturns ==
  (input.fn = "settleSacToken") ~> (output.pc = "returned")

\* C37: a poll that used every attempt returned.
C37_WitnessExhausted ==
  /\ input.fn = "settleSacToken"
  /\ input.maxTimeoutSeconds = 2
  /\ output.pc = "returned"
  /\ output.polls = 2
  /\ ~output.result.success

(***************************************************************************)
(* What the gate hands to settle.                                          *)
(***************************************************************************)
VerifyCalls == {i \in 1..Len(facilitatorCalls) : facilitatorCalls[i].op = "verify"}

SettleReturned == {c \in Callers : call[c].pc = "done"}

\* C39: a SettleResult with success=true has a non-empty transaction hash,
\* and every SettleResult carries the payload's sourceAccount as payer and
\* the payload's network.
C39_ResultCarriesHashPayerNetwork ==
  \A c \in SettleReturned :
    /\ call[c].result.success => call[c].result.transaction # NoHash
    /\ call[c].result.payer = call[c].payload.payload.sourceAccount
    /\ call[c].result.network = call[c].payload.network

\* C39 witness: one settle returned success, another returned a failure
\* for a payload of another network.
C39_Witness ==
  \E c, d \in SettleReturned :
    /\ call[c].result.success
    /\ call[c].result.transaction # NoHash
    /\ ~call[d].result.success
    /\ call[d].result.network # call[c].result.network

\* C39 witness: a contract-asset settle returned success.
C39_WitnessContract ==
  \E c \in SettleReturned :
    /\ call[c].result.success
    /\ call[c].requirements.asset # "native"

(***************************************************************************)
(* Requests that match no route rule.                                      *)
(***************************************************************************)
Unmatched == gpc # "idle" /\ req.matchingRoute = NoRoute

\* C40: for a request that matches no route rule the gate calls next()
\* exactly once, calls neither verify nor settle, emits no 402, and leaves
\* writeHead/write/end unwrapped: what the handler issues reaches the
\* response at once, nothing is buffered.
C40_UnmatchedPassesThrough ==
  Unmatched =>
    /\ nextCalls = 1
    /\ facilitatorCalls = <<>>
    /\ verifyOutcome = "none"
    /\ settleOutcome = "none"
    /\ res.sentStatus # 402
    /\ ~wrapped
    /\ bufferedCalls = <<>>
    /\ res.calls = HandlerIssued

\* C40 witness: the handler of an unmatched request has written its whole
\* response, status included.
C40_Witness ==
  /\ Unmatched
  /\ res.finished
  /\ res.sentStatus = 201
  /\ Len(res.calls) >= 2

=============================================================================
